---------------------------- MODULE Spec2Model ----------------------------
(***************************************************************************)
(* A model of mangapark.py: the chapter sequencer (extract_and_sort), the  *)
(* mirror-resilient image locator (get_image_urls), the chapter assembler  *)
(* (convert_chapter_pdfs) and the filename normalizer                      *)
(* (reorder_files_in_place).                                               *)
(*                                                                         *)
(* A string is a sequence of one-character strings, so that the regular    *)
(* expressions of the source are searched for, character by character.     *)
(***************************************************************************)
EXTENDS Integers, Sequences, FiniteSets, TLC

\* ------------------------------------------------------------------ bounds
\* Longest list or mapping given to extract_and_sort.
MaxLen == 3
\* Most entries in the folder given to reorder_files_in_place.
MaxFiles == 3
\* Most passes of reorder_files_in_place over one folder.
MaxPasses == 2
\* Longest list of identifiers given to get_image_urls.
MaxUrls == 2
\* Largest retry budget given to get_image_urls.
MaxRetries == 2

\* ----------------------------------------------------------------- strings
UpperCase ==
  <<"A","B","C","D","E","F","G","H","I","J","K","L","M",
    "N","O","P","Q","R","S","T","U","V","W","X","Y","Z">>
LowerCase ==
  <<"a","b","c","d","e","f","g","h","i","j","k","l","m",
    "n","o","p","q","r","s","t","u","v","w","x","y","z">>
Digits == <<"0","1","2","3","4","5","6","7","8","9">>

\* str.lower() on one character.
LowerChar(c) ==
  IF \E k \in 1..Len(UpperCase) : UpperCase[k] = c
  THEN LowerCase[CHOOSE k \in 1..Len(UpperCase) : UpperCase[k] = c]
  ELSE c

\* str.lower().
Lower(s) == [k \in 1..Len(s) |-> LowerChar(s[k])]

\* \d on one character.
IsDigit(c) == \E k \in 1..Len(Digits) : Digits[k] = c

DigitVal(c) == (CHOOSE k \in 1..Len(Digits) : Digits[k] = c) - 1

\* int() of a string of digits: leading zeros carry no value.
RECURSIVE IntOf(_)
IntOf(ds) ==
  IF ds = <<>> THEN 0
  ELSE IntOf(SubSeq(ds, 1, Len(ds) - 1)) * 10 + DigitVal(ds[Len(ds)])

\* The literal lit stands in s at position i.
LitAt(s, i, lit) ==
  /\ i >= 1
  /\ i + Len(lit) - 1 <= Len(s)
  /\ \A k \in 1..Len(lit) : s[i + k - 1] = lit[k]

\* The last position of the longest run of digits of s that starts at i
\* (i - 1 when s has no digit at i): \d+ is greedy.
DigitsEnd(s, i) ==
  LET ends == {e \in i..Len(s) : \A k \in i..e : IsDigit(s[k])}
  IN  IF ends = {} THEN i - 1
      ELSE CHOOSE e \in ends : \A f \in ends : f <= e

NoMatch == [ok |-> FALSE, groups |-> <<>>]

\* A pattern is a sequence of literals, each followed by a group (\d+):
\* <<"vol-", "-ch-">> is vol-(\d+)-ch-(\d+).  Every literal that follows a
\* group starts with "-", so a greedy group never has to give digits back.
\* The groups are kept as the matched strings.
RECURSIVE MatchAt(_, _, _)
MatchAt(s, i, pat) ==
  IF pat = <<>> THEN [ok |-> TRUE, groups |-> <<>>]
  ELSE LET lit == Head(pat)
           j   == i + Len(lit)
           e   == DigitsEnd(s, j)
       IN  IF LitAt(s, i, lit) /\ e >= j
           THEN LET r == MatchAt(s, e + 1, Tail(pat))
                IN  IF r.ok
                    THEN [ok |-> TRUE,
                          groups |-> <<SubSeq(s, j, e)>> \o r.groups]
                    ELSE NoMatch
           ELSE NoMatch

\* re.search(pat, s): the leftmost match.
Search(s, pat) ==
  LET at == {i \in 1..Len(s) : MatchAt(s, i, pat).ok}
  IN  IF at = {} THEN NoMatch
      ELSE MatchAt(s, CHOOSE i \in at : \A k \in at : i <= k, pat)

PatPrologue ==
  << <<"v","o","l","u","m","e","-">>,
     <<"-","p","r","o","l","o","g","u","e","-">> >>
PatEpisode ==
  << <<"v","o","l","u","m","e","-">>,
     <<"-","e","p","i","s","o","d","e","-">> >>
PatChapter == << <<"v","o","l","-">>, <<"-","c","h","-">> >>
PatStandaloneCh == << <<"c","h","-">> >>
PatVol == << <<"v","o","l","-">> >>
PatPrologueNum == << <<"p","r","o","l","o","g","u","e","-">> >>
PatEpisodeNum == << <<"e","p","i","s","o","d","e","-">> >>

\* -------------------------------------------------------------- order keys
\* A component of a key is an int or float('inf'): <<0, n>> is n and
\* <<1, 0>> is inf, so that inf is greater than every int.
Fin(n) == <<0, n>>
INF == <<1, 0>>

CompLess(a, b) == a[1] < b[1] \/ (a[1] = b[1] /\ a[2] < b[2])

\* Python's < on two tuples of the same length.
TupleLess(a, b) ==
  \E k \in 1..Len(a) :
    /\ \A m \in 1..(k - 1) : a[m] = b[m]
    /\ CompLess(a[k], b[k])

\* sort_key with the priorities of prologue and episode exchanged.
sort_key_PrioritySwapped(link) ==
  LET l  == Lower(link)
      mp == Search(l, PatPrologue)
      me == Search(l, PatEpisode)
      mc == Search(l, PatChapter)
      ms == Search(l, PatStandaloneCh)
  IN  IF mp.ok
        THEN <<Fin(IntOf(mp.groups[1])), Fin(1), Fin(IntOf(mp.groups[2])), Fin(0)>>
      ELSE IF me.ok
        THEN <<Fin(IntOf(me.groups[1])), Fin(0), Fin(IntOf(me.groups[2])), Fin(0)>>
      ELSE IF mc.ok
        THEN <<Fin(IntOf(mc.groups[1])), Fin(2), Fin(IntOf(mc.groups[2])), Fin(0)>>
      ELSE IF ms.ok
        THEN <<INF, Fin(IntOf(ms.groups[1])), Fin(0), Fin(0)>>
      ELSE <<INF, INF, INF, INF>>

\* extract_and_sort.sort_key
sort_key(link) ==
  LET l  == Lower(link)
      mp == Search(l, PatPrologue)
      me == Search(l, PatEpisode)
      mc == Search(l, PatChapter)
      ms == Search(l, PatStandaloneCh)
  IN  IF mp.ok
        THEN <<Fin(IntOf(mp.groups[1])), Fin(0), Fin(IntOf(mp.groups[2])), Fin(0)>>
      ELSE IF me.ok
        THEN <<Fin(IntOf(me.groups[1])), Fin(1), Fin(IntOf(me.groups[2])), Fin(0)>>
      ELSE IF mc.ok
        THEN <<Fin(IntOf(mc.groups[1])), Fin(2), Fin(IntOf(mc.groups[2])), Fin(0)>>
      ELSE IF ms.ok
        THEN <<INF, Fin(IntOf(ms.groups[1])), Fin(0), Fin(0)>>
      ELSE <<INF, INF, INF, INF>>

\* extract_sort_key with re.match for re.search: a pattern is only looked for
\* at the start of the name.
extract_sort_key_Anchored(filename) ==
  LET l  == Lower(filename)
      mv == MatchAt(l, 1, PatVol)
      mp == MatchAt(l, 1, PatPrologueNum)
      me == MatchAt(l, 1, PatEpisodeNum)
      mc == MatchAt(l, 1, PatStandaloneCh)
      volume == IF mv.ok THEN Fin(IntOf(mv.groups[1])) ELSE INF
  IN  IF mp.ok THEN <<volume, Fin(0), Fin(IntOf(mp.groups[1]))>>
      ELSE IF me.ok THEN <<volume, Fin(1), Fin(IntOf(me.groups[1]))>>
      ELSE IF mc.ok THEN <<volume, Fin(2), Fin(IntOf(mc.groups[1]))>>
      ELSE <<volume, INF, INF>>

\* reorder_files_in_place.extract_sort_key (re.IGNORECASE)
extract_sort_key(filename) ==
  LET l  == Lower(filename)
      mv == Search(l, PatVol)
      mp == Search(l, PatPrologueNum)
      me == Search(l, PatEpisodeNum)
      mc == Search(l, PatStandaloneCh)
      volume == IF mv.ok THEN Fin(IntOf(mv.groups[1])) ELSE INF
  IN  IF mp.ok THEN <<volume, Fin(0), Fin(IntOf(mp.groups[1]))>>
      ELSE IF me.ok THEN <<volume, Fin(1), Fin(IntOf(me.groups[1]))>>
      ELSE IF mc.ok THEN <<volume, Fin(2), Fin(IntOf(mc.groups[1]))>>
      ELSE <<volume, INF, INF>>

\* A filter that lets every link through.
IsValidLink_All(link) == TRUE

\* The filter without its last alternative, ch-\d+.
IsValidLink_NoStandalone(link) ==
  LET l == Lower(link)
  IN  \/ Search(l, PatEpisode).ok
      \/ Search(l, PatPrologue).ok
      \/ Search(l, PatChapter).ok

\* The filter of extract_and_sort:
\* re.search(r'(volume-\d+-(episode|prologue)-\d+|vol-\d+-ch-\d+|ch-\d+)', s.lower())
IsValidLink(link) ==
  LET l == Lower(link)
  IN  \/ Search(l, PatEpisode).ok
      \/ Search(l, PatPrologue).ok
      \/ Search(l, PatChapter).ok
      \/ Search(l, PatStandaloneCh).ok

\* ------------------------------------------------------------ stable sort
\* sorted(xs, key=...), K[i] being the key of xs[i]: Python's sort is stable,
\* so xs[j] comes out before xs[i] exactly when its key is smaller, or equal
\* with j < i.
\* A sort that is not stable: equal keys come out in reverse.
Before_TiesReversed(K, j, i) ==
  TupleLess(K[j], K[i]) \/ (K[j] = K[i] /\ j > i)

Before(K, j, i) == TupleLess(K[j], K[i]) \/ (K[j] = K[i] /\ j < i)

Rank(K, i) == Cardinality({j \in 1..Len(K) : Before(K, j, i)}) + 1

Sorted(xs, K) ==
  [p \in 1..Len(xs) |-> xs[CHOOSE i \in 1..Len(xs) : Rank(K, i) = p]]

\* ------------------------------------------------------------ identifiers
Id_vol01ch003 == <<"v","o","l","-","0","1","-","c","h","-","0","0","3">>
Id_vol01ch001 == <<"v","o","l","-","0","1","-","c","h","-","0","0","1">>
Id_ch000 == <<"c","h","-","0","0","0">>
Id_vol00ch000 == <<"v","o","l","-","0","0","-","c","h","-","0","0","0">>
Id_volume2prologue1 ==
  <<"v","o","l","u","m","e","-","2","-","p","r","o","l","o","g","u","e","-","1">>
Id_volume2episode1 ==
  <<"v","o","l","u","m","e","-","2","-","e","p","i","s","o","d","e","-","1">>
Id_volume1ch5 == <<"v","o","l","u","m","e","-","1","-","c","h","-","5">>
Id_about == <<"a","b","o","u","t">>
Id_Vol1Ch1 == <<"V","o","l","-","1","-","C","h","-","1">>
Id_vol3ch1 == <<"v","o","l","-","3","-","c","h","-","1">>
Id_001ch000 == <<"0","0","1","_","c","h","-","0","0","0">>

Idents ==
  { Id_vol01ch003, Id_vol01ch001, Id_ch000, Id_vol00ch000,
    Id_volume2prologue1, Id_volume2episode1, Id_volume1ch5,
    Id_about, Id_Vol1Ch1, Id_vol3ch1 }

\* The keys and the filter's verdict of every identifier, computed once.
SortKeyOf == [n \in Idents |-> sort_key(n)]
ValidLink == {n \in Idents : IsValidLink(n)}

SeqsUpTo(S, n) == UNION {[1..k -> S] : k \in 0..n}

\* The two examples of the specification's section 8.
ExamplePlaceholders ==
  <<Id_vol01ch003, Id_vol01ch001, Id_ch000, Id_vol00ch000>>
ExampleVolumes == <<Id_volume2prologue1, Id_volume2episode1, Id_volume1ch5>>

VARIABLES
  \* extract_and_sort
  seqPc,        \* "idle", "call", "returned" or "TypeError"
  dataType,     \* "list", "dict" or another type's name
  data,         \* the argument
  sorted_data,  \* the value returned
  sortedType    \* its type: "list" or "dict" ("none" before the return)

seqVars == <<seqPc, dataType, data, sorted_data, sortedType>>

VARIABLES
  \* reorder_files_in_place
  normPc,       \* "idle", "ready" (no pass is running) or "rename"
  folder,       \* the directory: name |-> the file under that name, a file
                \* being known by the name it had at the start
  sorted_files, \* the names of the listing, sorted by key
  renamed,      \* how many of them the loop has renamed
  orders        \* history: sorted_files of every pass so far

normVars == <<normPc, folder, sorted_files, renamed, orders>>

VARIABLES
  \* get_image_urls
  locPc,            \* where the function is: "idle", "start", "for", "while",
                    \* "render", "except", "reinit", "finally", "returned"
                    \* or "raised"
  url_list,         \* arguments
  page_limit,       \* <<>> is None, <<n>> is the cap n
  retries,
  min_images,
  urlAt,            \* the position of url in url_list
  retries_left,
  server,
  found_sufficient_images,
  driver,           \* <<>> is None, <<s>> is the session s
  all_image_data,   \* url |-> the list of image sources
  error_log,
  pages_processed,
  raising,          \* an exception is on its way out of the function
  live,             \* the renderer sessions that are open
  sweep,            \* history: how many images each mirror gave in the
                    \* sweep that is running or has just ended
  rendered,         \* history: the urls a render call was made for
  attempts,         \* history: the attempts started for url (the passes of
                    \* the while loop)
  faults,           \* history: those of them a rendering exception ended
  stale             \* history: a rendering exception was raised on the
                    \* session driver names

locVars ==
  <<locPc, url_list, page_limit, retries, min_images, urlAt, retries_left,
    server, found_sufficient_images, driver, all_image_data, error_log,
    pages_processed, raising, live, sweep, rendered, attempts, faults,
    stale>>

VARIABLES
  \* convert_chapter_pdfs
  asmPc,          \* "idle", "start", "walk" or "done"
  manga_exists,   \* os.path.exists(manga_folder)
  dirs,           \* the subfolders under manga_folder, each the sequence of
                  \* directory names that leads to it
  contents,       \* subfolder |-> (file name |-> what the file holds)
  pdfs,           \* the documents in manga_folder: name without ".pdf" |->
                  \* the files its pages were made of
  error_folders,
  walked,         \* the subfolders os.walk has yielded
  dirs0,          \* history: dirs and contents when the function was called
  contents0,
  fault           \* history: subfolder |-> the call that the system failed
                  \* ("save", "remove", "rmdir"), "none" if it failed none

asmVars ==
  <<asmPc, manga_exists, dirs, contents, pdfs, error_folders, walked, dirs0,
    contents0, fault>>

VARIABLES
  \* append_pdfs_to_manga_collection
  mrgPc,            \* "idle", "start", "find", "list", "append", "save",
                    \* "done" or "raised"
  input_exists,     \* os.path.exists(input_folder)
  input_files,      \* the input folder: file name |-> what the file holds
  collection_dirs,  \* the folders named collection_folder_name under the
                    \* home directory, each the sequence of names to it
  collection_folder_path,  \* <<>> before it is set, <<path>> after
  pdf_files,
  merged_pdf,       \* the pages of the new document
  appended,         \* how many of pdf_files the loop has appended
  collection_docs,  \* the documents written: <<folder, name>> |-> pages
  printed,          \* the messages printed
  collection_dirs0  \* history: collection_dirs when the function was called

mrgVars ==
  <<mrgPc, input_exists, input_files, collection_dirs,
    collection_folder_path, pdf_files, merged_pdf, appended, collection_docs,
    printed, collection_dirs0>>

VARIABLES
  \* download_manga_images
  dlPc,         \* "idle", "start", "url", "image" or "done"
  image_data,   \* the argument: the pairs <<url, number of image urls>> of
                \* the dict, in the order of its keys; the image url at
                \* position index of the list of url is known as
                \* <<url, index>>
  main_folder,  \* subfolder name |-> (file name |-> what the file holds)
  sorted_urls,
  urlPos,       \* the position in sorted_urls of the url of the for loop
  subfolder,    \* the subfolder of that url
  imgIndex      \* index of the enumerate of line 311

dlVars ==
  <<dlPc, image_data, main_folder, sorted_urls, urlPos, subfolder, imgIndex>>

vars == <<seqVars, normVars, locVars, asmVars, mrgVars, dlVars>>

IdleDl ==
  /\ dlPc = "idle"
  /\ image_data = <<>>
  /\ main_folder = <<>>
  /\ sorted_urls = <<>>
  /\ urlPos = 1
  /\ subfolder = <<>>
  /\ imgIndex = 0


IdleMrg ==
  /\ mrgPc = "idle"
  /\ input_exists = FALSE
  /\ input_files = <<>>
  /\ collection_dirs = {}
  /\ collection_folder_path = <<>>
  /\ pdf_files = <<>>
  /\ merged_pdf = <<>>
  /\ appended = 0
  /\ collection_docs = <<>>
  /\ printed = <<>>
  /\ collection_dirs0 = {}

IdleAsm ==
  /\ asmPc = "idle"
  /\ manga_exists = FALSE
  /\ dirs = {}
  /\ contents = <<>>
  /\ pdfs = <<>>
  /\ error_folders = <<>>
  /\ walked = {}
  /\ dirs0 = {}
  /\ contents0 = <<>>
  /\ fault = <<>>

IdleLoc ==
  /\ locPc = "idle"
  /\ url_list = <<>>
  /\ page_limit = <<>>
  /\ retries = 0
  /\ min_images = 0
  /\ urlAt = 1
  /\ retries_left = 0
  /\ server = 1
  /\ found_sufficient_images = FALSE
  /\ driver = <<>>
  /\ all_image_data = <<>>
  /\ error_log = <<>>
  /\ pages_processed = 0
  /\ raising = FALSE
  /\ live = {}
  /\ sweep = <<>>
  /\ rendered = {}
  /\ attempts = 0
  /\ faults = 0
  /\ stale = FALSE

IdleSeq ==
  /\ seqPc = "idle"
  /\ dataType = "none"
  /\ data = <<>>
  /\ sorted_data = <<>>
  /\ sortedType = "none"

IdleNorm ==
  /\ normPc = "idle"
  /\ folder = <<>>
  /\ sorted_files = <<>>
  /\ renamed = 0
  /\ orders = <<>>

OtherThanSeq == <<normVars, locVars, asmVars, mrgVars, dlVars>>
OtherThanNorm == <<seqVars, locVars, asmVars, mrgVars, dlVars>>
OtherThanLoc == <<seqVars, normVars, asmVars, mrgVars, dlVars>>
OtherThanAsm == <<seqVars, normVars, locVars, mrgVars, dlVars>>
OtherThanMrg == <<seqVars, normVars, locVars, asmVars, dlVars>>
OtherThanDl == <<seqVars, normVars, locVars, asmVars, mrgVars>>

\* ------------------------------------------------------- extract_and_sort
ListInputs == SeqsUpTo(Idents, MaxLen) \cup {ExamplePlaceholders, ExampleVolumes}

\* A mapping's keys are distinct; the value of the i-th item is i, so that
\* every item's value tells where it came from.
DictInputs ==
  { [i \in 1..Len(ks) |-> <<ks[i], i>>] :
      ks \in {s \in ListInputs : \A i, j \in 1..Len(s) : s[i] = s[j] => i = j} }

InitSeq ==
  /\ IdleNorm
  /\ IdleLoc
  /\ IdleAsm
  /\ IdleMrg
  /\ IdleDl
  /\ seqPc = "call"
  /\ \/ dataType = "list" /\ data \in ListInputs
     \/ dataType = "dict" /\ data \in DictInputs
     \/ dataType \in {"set", "tuple"} /\ data \in ListInputs
  /\ sorted_data = <<>>
  /\ sortedType = "none"

\* isinstance(data, list): filter, then sorted(filtered_data, key=sort_key)
SortList ==
  /\ seqPc = "call"
  /\ dataType = "list"
  /\ LET filtered_data == SelectSeq(data, LAMBDA link : link \in ValidLink)
     IN  sorted_data' =
           Sorted(filtered_data,
                  [i \in 1..Len(filtered_data) |-> SortKeyOf[filtered_data[i]]])
  /\ sortedType' = "list"
  /\ seqPc' = "returned"
  /\ UNCHANGED <<dataType, data, OtherThanSeq>>

\* isinstance(data, dict): filter the items, sort the keys, rebuild the dict
\* (a mapping is the sequence of its <<key, value>> items in insertion order,
\* and its keys are distinct, so sorting the items by their keys is sorting
\* the keys and looking each value up).
SortDict ==
  /\ seqPc = "call"
  /\ dataType = "dict"
  /\ LET filtered_data == SelectSeq(data, LAMBDA kv : kv[1] \in ValidLink)
     IN  sorted_data' =
           Sorted(filtered_data,
                  [i \in 1..Len(filtered_data) |-> SortKeyOf[filtered_data[i][1]]])
  /\ sortedType' = "dict"
  /\ seqPc' = "returned"
  /\ UNCHANGED <<dataType, data, OtherThanSeq>>

\* else: raise TypeError("Input must be a list or dictionary.")
RaiseTypeError ==
  /\ seqPc = "call"
  /\ dataType \notin {"list", "dict"}
  /\ seqPc' = "TypeError"
  /\ UNCHANGED <<dataType, data, sorted_data, sortedType, OtherThanSeq>>

extract_and_sort == SortList \/ SortDict \/ RaiseTypeError

NextSeq == extract_and_sort

SpecSeq == InitSeq /\ [][NextSeq]_vars

\* ------------------------------------------- claims on extract_and_sort
\* The identifiers given and returned, whatever the type of the collection.
NamesOf(type, xs) ==
  IF type = "dict" THEN [i \in 1..Len(xs) |-> xs[i][1]] ELSE xs

\* The four identifier grammars of the specification's section 4.1.
Recognized(link) ==
  LET l == Lower(link)
  IN  \/ Search(l, PatPrologue).ok
      \/ Search(l, PatEpisode).ok
      \/ Search(l, PatChapter).ok
      \/ Search(l, PatStandaloneCh).ok

\* The numbers an identifier carries under the first grammar it matches.
GrammarNumbers(link) ==
  LET l  == Lower(link)
      mp == Search(l, PatPrologue)
      me == Search(l, PatEpisode)
      mc == Search(l, PatChapter)
      ms == Search(l, PatStandaloneCh)
      g  == IF mp.ok THEN mp.groups ELSE IF me.ok THEN me.groups
            ELSE IF mc.ok THEN mc.groups ELSE ms.groups
  IN  [k \in 1..Len(g) |-> IntOf(g[k])]

\* A placeholder: a recognized identifier whose numbers are all zero.
IsPlaceholder(link) ==
  /\ Recognized(link)
  /\ \A k \in 1..Len(GrammarNumbers(link)) : GrammarNumbers(link)[k] = 0

RecognizedIdents == {n \in Idents : Recognized(n)}
Placeholders == {n \in Idents : IsPlaceholder(n)}

\* The identifier matches no grammar.
Unmatched(link) == link \notin RecognizedIdents

C8_StableSortSameType ==
  /\ seqPc = "returned" =>
       LET retained ==
             SelectSeq(data, LAMBDA x :
               (IF dataType = "dict" THEN x[1] ELSE x) \in RecognizedIdents)
           outs == NamesOf(sortedType, sorted_data)
           n == Len(retained)
       IN  /\ dataType \in {"list", "dict"}
           /\ sortedType = dataType
           /\ Len(sorted_data) = n
           /\ \A p, q \in 1..n :
                p < q => ~TupleLess(SortKeyOf[outs[q]], SortKeyOf[outs[p]])
           /\ \E pi \in [1..n -> 1..n] :
                /\ \A p, q \in 1..n : pi[p] = pi[q] => p = q
                /\ \A p \in 1..n : sorted_data[p] = retained[pi[p]]
                /\ \A p, q \in 1..n :
                     (p < q /\ SortKeyOf[outs[p]] = SortKeyOf[outs[q]])
                        => pi[p] < pi[q]
  /\ (seqPc # "call" /\ dataType \notin {"list", "dict"}) => seqPc = "TypeError"
  /\ seqPc = "TypeError" => dataType \notin {"list", "dict"}

C8_Witness ==
  /\ seqPc = "returned"
  /\ dataType = "dict"
  /\ Len(sorted_data) < Len(data)
  /\ \E p, q \in 1..Len(sorted_data) :
       /\ p < q
       /\ sorted_data[p][2] < sorted_data[q][2]
       /\ SortKeyOf[sorted_data[p][1]] = SortKeyOf[sorted_data[q][1]]

\* The key the specification's section 3 describes: the volume number (after
\* 'volume-' or 'vol-'), then the unit kind, then the unit number.
PatVolume == << <<"v","o","l","u","m","e","-">> >>

ClaimedKey(link) ==
  LET l  == Lower(link)
      mv == Search(l, PatVolume)
      ms == Search(l, PatVol)
      mp == Search(l, PatPrologueNum)
      me == Search(l, PatEpisodeNum)
      mc == Search(l, PatStandaloneCh)
      volume == IF mv.ok THEN Fin(IntOf(mv.groups[1]))
                ELSE IF ms.ok THEN Fin(IntOf(ms.groups[1])) ELSE INF
  IN  IF mp.ok THEN <<volume, Fin(0), Fin(IntOf(mp.groups[1]))>>
      ELSE IF me.ok THEN <<volume, Fin(1), Fin(IntOf(me.groups[1]))>>
      ELSE IF mc.ok THEN <<volume, Fin(2), Fin(IntOf(mc.groups[1]))>>
      ELSE <<volume, INF, INF>>

ClaimedKeyOf == [n \in Idents |-> ClaimedKey(n)]

\* C9, as the specification states it: the output is ordered by volume
\* number, then unit kind, then unit number, and ['volume-2-prologue-1',
\* 'volume-2-episode-1', 'volume-1-ch-5'] is output as ['volume-1-ch-5',
\* 'volume-2-prologue-1', 'volume-2-episode-1'].
C9_OrderedByVolumeFirst ==
  (seqPc = "returned" /\ dataType = "list") =>
    /\ \A p, q \in 1..Len(sorted_data) :
         p < q => ~TupleLess(ClaimedKeyOf[sorted_data[q]],
                             ClaimedKeyOf[sorted_data[p]])
    /\ data = ExampleVolumes
         => sorted_data =
              <<Id_volume1ch5, Id_volume2prologue1, Id_volume2episode1>>

\* <<volume, priority, number>> of an identifier that matches one of the
\* three grammars with a volume; <<>> for one that matches ch-N only.
VolumeScoped(link) ==
  LET l  == Lower(link)
      mp == Search(l, PatPrologue)
      me == Search(l, PatEpisode)
      mc == Search(l, PatChapter)
  IN  IF mp.ok THEN <<IntOf(mp.groups[1]), 0, IntOf(mp.groups[2])>>
      ELSE IF me.ok THEN <<IntOf(me.groups[1]), 1, IntOf(me.groups[2])>>
      ELSE IF mc.ok THEN <<IntOf(mc.groups[1]), 2, IntOf(mc.groups[2])>>
      ELSE <<>>

VolumeScopedOf == [n \in Idents |-> VolumeScoped(n)]
StandaloneNumberOf ==
  [n \in RecognizedIdents |-> IntOf(Search(Lower(n), PatStandaloneCh).groups[1])]

LexLeq(a, b) ==
  \/ a = b
  \/ \E k \in 1..Len(a) : (\A m \in 1..(k - 1) : a[m] = b[m]) /\ a[k] < b[k]

\* C9, amended: identifiers that match a grammar with a volume are ordered by
\* volume number, then unit kind (prologue, episode, chapter), then unit
\* number; an identifier that matches ch-N only, 'volume-1-ch-5' too, comes
\* after all of them, ordered by N; ['volume-2-prologue-1',
\* 'volume-2-episode-1', 'volume-1-ch-5'] is output in that same order.
C9_VolumeScopedThenStandalone ==
  (seqPc = "returned" /\ dataType = "list") =>
    /\ \A p, q \in 1..Len(sorted_data) :
         p < q =>
           LET a == VolumeScopedOf[sorted_data[p]]
               b == VolumeScopedOf[sorted_data[q]]
           IN  /\ (a # <<>> /\ b # <<>>) => LexLeq(a, b)
               /\ a = <<>> => b = <<>>
               /\ (a = <<>> /\ b = <<>>) =>
                    StandaloneNumberOf[sorted_data[p]]
                      <= StandaloneNumberOf[sorted_data[q]]
    /\ data = ExampleVolumes
         => sorted_data =
              <<Id_volume2prologue1, Id_volume2episode1, Id_volume1ch5>>

C9_Witness ==
  /\ seqPc = "returned"
  /\ dataType = "list"
  /\ data = ExampleVolumes
  /\ Len(sorted_data) = 3
  /\ sorted_data[3] = Id_volume1ch5

\* ------------------------------------------------ reorder_files_in_place
\* The width of the prefix, f"{i+1:03d}".
PrefixWidth == 3

\* str(n) for n >= 0.
RECURSIVE Decimal(_)
Decimal(n) ==
  IF n < 10 THEN <<Digits[n + 1]>>
  ELSE Decimal(n \div 10) \o <<Digits[(n % 10) + 1]>>

\* f"{n:0{w}d}": zeros in front up to the width w, never a digit cut.
ZeroPadded(n, w) ==
  LET ds == Decimal(n)
  IN  IF Len(ds) >= w THEN ds
      ELSE [k \in 1..(w - Len(ds)) |-> "0"] \o ds

\* new_filename = f"{i+1:03d}_{filename}", position being i + 1
NewFilename(position, filename) ==
  ZeroPadded(position, PrefixWidth) \o <<"_">> \o filename

FileNames ==
  { Id_vol01ch001, Id_Vol1Ch1, Id_ch000, Id_001ch000,
    Id_volume2prologue1, Id_vol3ch1, Id_about }

\* The names a folder can hold after k passes.
RECURSIVE NamesAfter(_)
NamesAfter(k) ==
  IF k = 0 THEN FileNames
  ELSE {NewFilename(i, n) : i \in 1..MaxFiles, n \in NamesAfter(k - 1)}

\* The key of every name a pass can list, computed once.
ExtractKeyOf ==
  [n \in UNION {NamesAfter(k) : k \in 0..MaxPasses} |-> extract_sort_key(n)]

\* The orders os.listdir may return the names of S in: any.
Listings(S) ==
  {f \in [1..Cardinality(S) -> S] : \A i, j \in DOMAIN f : f[i] = f[j] => i = j}

InitNorm ==
  /\ IdleSeq
  /\ IdleLoc
  /\ IdleAsm
  /\ IdleMrg
  /\ IdleDl
  /\ normPc = "ready"
  /\ \E S \in SUBSET FileNames :
       /\ Cardinality(S) <= MaxFiles
       /\ folder = [n \in S |-> n]
  /\ sorted_files = <<>>
  /\ renamed = 0
  /\ orders = <<>>

\* files = os.listdir(folder_path), file_data, sorted(file_data, key=...)
ListAndSort ==
  /\ normPc = "ready"
  /\ Len(orders) < MaxPasses
  /\ \E files \in Listings(DOMAIN folder) :
       sorted_files' =
         Sorted(files, [i \in 1..Len(files) |-> ExtractKeyOf[files[i]]])
  /\ orders' = Append(orders, sorted_files')
  /\ renamed' = 0
  /\ normPc' = "rename"
  /\ UNCHANGED <<folder, OtherThanNorm>>

\* One turn of the renaming loop: os.rename(original_path, new_path), which
\* replaces a file that already has the new name.
RenameNext ==
  /\ normPc = "rename"
  /\ renamed < Len(sorted_files)
  /\ LET filename == sorted_files[renamed + 1]
         new_filename == NewFilename(renamed + 1, filename)
     IN  folder' =
           [n \in (DOMAIN folder \ {filename}) \cup {new_filename} |->
              IF n = new_filename THEN folder[filename] ELSE folder[n]]
  /\ renamed' = renamed + 1
  /\ UNCHANGED <<normPc, sorted_files, orders, OtherThanNorm>>

\* The loop is over: the pass returns.
FinishPass ==
  /\ normPc = "rename"
  /\ renamed = Len(sorted_files)
  /\ normPc' = "ready"
  /\ UNCHANGED <<folder, sorted_files, renamed, orders, OtherThanNorm>>

reorder_files_in_place == ListAndSort \/ RenameNext \/ FinishPass

NextNorm == reorder_files_in_place

SpecNorm == InitNorm /\ [][NextNorm]_vars

\* ------------------------------------- claims on reorder_files_in_place
SortKeyOfFile == [n \in FileNames |-> sort_key(n)]
RecognizedFiles == {n \in FileNames : Recognized(n)}

\* C4: the key of the sequencer and the key of the normalizer order any two
\* names that match a recognized grammar the same way.
C4_KeysAgree ==
  Len(orders) = 1 =>
    \A a, b \in DOMAIN folder \cap RecognizedFiles :
      TupleLess(SortKeyOfFile[a], SortKeyOfFile[b])
        <=> TupleLess(ExtractKeyOf[a], ExtractKeyOf[b])

\* The name a file had before the pass that prefixed it.
Unprefixed(name) == SubSeq(name, PrefixWidth + 2, Len(name))

PositionIn(order, name) == CHOOSE k \in 1..Len(order) : order[k] = name

\* The second pass is over.
TwoPassesDone == normPc = "ready" /\ Len(orders) >= 2

\* C10, as the specification states it: the key of an already prefixed name
\* is the key of the original name, and the second pass puts the files in
\* the relative order the first pass put them in.
C10_SecondPassSameOrder ==
  TwoPassesDone =>
    /\ \A k \in 1..Len(orders[1]) :
         ExtractKeyOf[NewFilename(k, orders[1][k])] = ExtractKeyOf[orders[1][k]]
    /\ \A p, q \in 1..Len(orders[2]) :
         p < q => PositionIn(orders[1], Unprefixed(orders[2][p]))
                    < PositionIn(orders[1], Unprefixed(orders[2][q]))

\* C10, amended: the key of an already prefixed name is the key of the
\* original name, and the second pass puts any two files whose keys differ
\* in the relative order the first pass put them in (files of equal key come
\* out in the order of the directory listing, which is arbitrary).
C10_SecondPassSameOrderOfDistinctKeys ==
  TwoPassesDone =>
    /\ \A k \in 1..Len(orders[1]) :
         ExtractKeyOf[NewFilename(k, orders[1][k])] = ExtractKeyOf[orders[1][k]]
    /\ \A p, q \in 1..Len(orders[2]) :
         (p < q /\ ExtractKeyOf[orders[2][p]] # ExtractKeyOf[orders[2][q]])
           => PositionIn(orders[1], Unprefixed(orders[2][p]))
                < PositionIn(orders[1], Unprefixed(orders[2][q]))

C10_Witness ==
  /\ TwoPassesDone
  /\ Len(orders[2]) = MaxFiles
  /\ \E p, q \in 1..Len(orders[2]) :
       ExtractKeyOf[orders[2][p]] # ExtractKeyOf[orders[2][q]]
  /\ \E p, q \in 1..Len(orders[2]) :
       p # q /\ ExtractKeyOf[orders[2][p]] = ExtractKeyOf[orders[2][q]]

\* -------------------------------------------------------- get_image_urls
\* range(1, 5): the mirrors tried in one sweep.
NumServers == 4
\* image_src_urls[:160]
MaxImagesPerUrl == 160
\* min_images=10
DefaultMinImages == 10

Urls == {"u1", "u2"}

\* No page limit, or a limit of 0, 1 or 2 pages.
PageLimits == {<<>>, <<0>>, <<1>>, <<2>>}

\* How many img.w-full.h-full elements a page may hold: none, fewer than
\* the default min_images, at least that many, more than the slice keeps.
ImageCounts == {0, 7, 12, 161}

\* [img.get_attribute("src") for img in image_tags], on the page of mirror
\* srv that holds n such elements: the k-th source of that page.
ImageSrcUrls(srv, n) == [k \in 1..n |-> <<srv, k>>]

\* The slice with no limit.
FirstImages_NoLimit(image_src_urls) == image_src_urls

\* image_src_urls[:160]
FirstImages(image_src_urls) ==
  SubSeq(image_src_urls, 1,
         IF Len(image_src_urls) > MaxImagesPerUrl THEN MaxImagesPerUrl
         ELSE Len(image_src_urls))

\* all_image_data[url] = images
WithEntry(mapping, url, images) ==
  [u \in DOMAIN mapping \cup {url} |-> IF u = url THEN images ELSE mapping[u]]

url == url_list[urlAt]

InitLoc ==
  /\ IdleSeq
  /\ IdleNorm
  /\ IdleAsm
  /\ IdleMrg
  /\ IdleDl
  /\ locPc = "start"
  /\ url_list \in SeqsUpTo(Urls, MaxUrls)
  /\ page_limit \in PageLimits
  /\ retries \in 0..MaxRetries
  /\ min_images \in {0, DefaultMinImages}
  /\ urlAt = 1
  /\ retries_left = 0
  /\ server = 1
  /\ found_sufficient_images = FALSE
  /\ driver = <<>>
  /\ all_image_data = <<>>
  /\ error_log = <<>>
  /\ pages_processed = 0
  /\ raising = FALSE
  /\ live = {}
  /\ sweep = <<>>
  /\ rendered = {}
  /\ attempts = 0
  /\ faults = 0
  /\ stale = FALSE

\* driver = get_driver_with_options(): a new session, named by the least
\* number no open session has, is the only one the variable names.
NewSession ==
  LET s == CHOOSE n \in 1..(Cardinality(live) + 1) : n \notin live
  IN  /\ driver' = <<s>>
      /\ live' = live \cup {s}
      /\ stale' = FALSE

\* driver.quit()
Quit == live' = live \ {driver[k] : k \in 1..Len(driver)}

\* line 106: the driver is started once
StartDriver ==
  /\ locPc = "start"
  /\ NewSession
  /\ locPc' = "for"
  /\ UNCHANGED <<attempts, faults,
                 url_list, page_limit, retries, min_images, urlAt,
                 retries_left, server, found_sufficient_images,
                 all_image_data, error_log, pages_processed, raising, sweep,
                 rendered, OtherThanLoc>>

\* line 106, webdriver.Chrome raising: the exception leaves through finally
StartDriverFails ==
  /\ locPc = "start"
  /\ raising' = TRUE
  /\ locPc' = "finally"
  /\ UNCHANGED <<attempts, faults, stale,
                 url_list, page_limit, retries, min_images, urlAt,
                 retries_left, server, found_sufficient_images, driver,
                 all_image_data, error_log, pages_processed, live, sweep, rendered, OtherThanLoc>>

\* line 108: the list is exhausted (the sweep of the url before, if any, is
\* over: its history is dropped)
ForExhausted ==
  /\ locPc = "for"
  /\ urlAt > Len(url_list)
  /\ locPc' = "finally"
  /\ sweep' = <<>>
  /\ UNCHANGED <<attempts, faults, stale,
                 url_list, page_limit, retries, min_images, urlAt,
                 retries_left, server, found_sufficient_images, driver,
                 all_image_data, error_log, pages_processed, raising, live,
                 rendered, OtherThanLoc>>

\* lines 109-111: the page limit is reached, break
PageLimitReached ==
  /\ locPc = "for"
  /\ urlAt <= Len(url_list)
  /\ page_limit # <<>> /\ pages_processed >= page_limit[1]
  /\ locPc' = "finally"
  /\ sweep' = <<>>
  /\ UNCHANGED <<attempts, faults, stale,
                 url_list, page_limit, retries, min_images, urlAt,
                 retries_left, server, found_sufficient_images, driver,
                 all_image_data, error_log, pages_processed, raising, live,
                 rendered, OtherThanLoc>>

\* lines 113-114: the next url, with the whole retry budget
ForBody ==
  /\ locPc = "for"
  /\ urlAt <= Len(url_list)
  /\ ~(page_limit # <<>> /\ pages_processed >= page_limit[1])
  /\ retries_left' = retries
  /\ locPc' = "while"
  /\ sweep' = <<>>
  /\ attempts' = 0
  /\ faults' = 0
  /\ UNCHANGED <<stale,
                 url_list, page_limit, retries, min_images, urlAt, server,
                 found_sufficient_images, driver, all_image_data, error_log,
                 pages_processed, raising, live, rendered,
                 OtherThanLoc>>

\* lines 116-120: an attempt starts a sweep at mirror 1
AttemptSweep ==
  /\ locPc = "while"
  /\ retries_left > 0
  /\ found_sufficient_images' = FALSE
  /\ server' = 1
  /\ sweep' = <<>>
  /\ locPc' = "render"
  /\ attempts' = attempts + 1
  /\ UNCHANGED <<faults, stale,
                 url_list, page_limit, retries, min_images, urlAt,
                 retries_left, driver, all_image_data, error_log,
                 pages_processed, raising, live, rendered,
                 OtherThanLoc>>

\* line 116: while retries_left > 0 is false, on to the next url
NoRetriesLeft ==
  /\ locPc = "while"
  /\ ~(retries_left > 0)
  /\ urlAt' = urlAt + 1
  /\ locPc' = "for"
  /\ UNCHANGED <<attempts, faults, stale,
                 url_list, page_limit, retries, min_images, retries_left,
                 server, found_sufficient_images, driver, all_image_data,
                 error_log, pages_processed, raising, live, sweep,
                 rendered, OtherThanLoc>>

\* lines 121-127: driver.get or the wait raises (the sweep is given up: its
\* history is dropped)
RenderFault ==
  /\ locPc = "render"
  /\ rendered' = rendered \cup {url}
  /\ sweep' = <<>>
  /\ locPc' = "except"
  /\ faults' = faults + 1
  /\ stale' = TRUE
  /\ UNCHANGED <<attempts,
                 url_list, page_limit, retries, min_images, urlAt,
                 retries_left, server, found_sufficient_images, driver,
                 all_image_data, error_log, pages_processed, raising, live,
                 OtherThanLoc>>

\* RenderAccept taking the first page that holds any image, whatever
\* min_images is.
RenderAccept_IgnoresMinimum ==
  /\ locPc = "render"
  /\ \E n \in ImageCounts :
       /\ n # 0
       /\ sweep' = Append(sweep, n)
       /\ all_image_data' =
            WithEntry(all_image_data, url, FirstImages(ImageSrcUrls(server, n)))
  /\ rendered' = rendered \cup {url}
  /\ pages_processed' = pages_processed + 1
  /\ found_sufficient_images' = TRUE
  /\ urlAt' = urlAt + 1
  /\ locPc' = "for"
  /\ UNCHANGED <<attempts, faults, stale,
                 url_list, page_limit, retries, min_images, retries_left,
                 server, driver, error_log, raising, live, OtherThanLoc>>

\* lines 121-143, 147-148: the page of this mirror holds images, and at least
\* min_images of them: they are recorded, and both loops are left
RenderAccept ==
  /\ locPc = "render"
  /\ \E n \in ImageCounts :
       /\ n # 0
       /\ n >= min_images
       /\ sweep' = Append(sweep, n)
       /\ all_image_data' =
            WithEntry(all_image_data, url, FirstImages(ImageSrcUrls(server, n)))
  /\ rendered' = rendered \cup {url}
  /\ pages_processed' = pages_processed + 1
  /\ found_sufficient_images' = TRUE
  /\ urlAt' = urlAt + 1
  /\ locPc' = "for"
  /\ UNCHANGED <<attempts, faults, stale,
                 url_list, page_limit, retries, min_images, retries_left,
                 server, driver, error_log, raising, live, OtherThanLoc>>

\* lines 132-134, 144-145: no image, or fewer than min_images: the next mirror
RenderReject ==
  /\ locPc = "render"
  /\ server < NumServers
  /\ \E n \in ImageCounts :
       /\ n = 0 \/ n < min_images
       /\ sweep' = Append(sweep, n)
  /\ rendered' = rendered \cup {url}
  /\ server' = server + 1
  /\ UNCHANGED <<attempts, faults, stale,
                 locPc, url_list, page_limit, retries, min_images, urlAt,
                 retries_left, found_sufficient_images, driver,
                 all_image_data, error_log, pages_processed, raising, live, OtherThanLoc>>

\* RenderRejectLast spending a retry on another sweep instead of giving the
\* url up.
RenderRejectLast_SweepsAgain ==
  /\ locPc = "render"
  /\ server = NumServers
  /\ \E n \in ImageCounts :
       /\ n = 0 \/ n < min_images
       /\ sweep' = Append(sweep, n)
  /\ rendered' = rendered \cup {url}
  /\ retries_left' = retries_left - 1
  /\ locPc' = "while"
  /\ UNCHANGED <<attempts, faults, stale,
                 url_list, page_limit, retries, min_images, urlAt, server,
                 found_sufficient_images, driver, all_image_data, error_log,
                 pages_processed, raising, live, OtherThanLoc>>

\* RenderRejectLast without the record in the error log.
RenderRejectLast_NoRecord ==
  /\ locPc = "render"
  /\ server = NumServers
  /\ \E n \in ImageCounts :
       /\ n = 0 \/ n < min_images
       /\ sweep' = Append(sweep, n)
  /\ rendered' = rendered \cup {url}
  /\ all_image_data' = WithEntry(all_image_data, url, <<>>)
  /\ urlAt' = urlAt + 1
  /\ locPc' = "for"
  /\ UNCHANGED <<attempts, faults, stale, url_list, page_limit, retries,
                 min_images, retries_left, server, found_sufficient_images,
                 driver, error_log, pages_processed, raising, live,
                 OtherThanLoc>>

\* RenderRejectLast counting the url as a processed page.
RenderRejectLast_CountsPage ==
  /\ locPc = "render"
  /\ server = NumServers
  /\ \E n \in ImageCounts :
       /\ n = 0 \/ n < min_images
       /\ sweep' = Append(sweep, n)
  /\ rendered' = rendered \cup {url}
  /\ error_log' =
       Append(error_log, [url |-> url, error_code |-> "INSUFFICIENT_IMAGES"])
  /\ all_image_data' = WithEntry(all_image_data, url, <<>>)
  /\ pages_processed' = pages_processed + 1
  /\ urlAt' = urlAt + 1
  /\ locPc' = "for"
  /\ UNCHANGED <<attempts, faults, stale, url_list, page_limit, retries,
                 min_images, retries_left, server, found_sufficient_images,
                 driver, raising, live, OtherThanLoc>>

\* the same on the last mirror, then lines 149-153: INSUFFICIENT_IMAGES
RenderRejectLast ==
  /\ locPc = "render"
  /\ server = NumServers
  /\ \E n \in ImageCounts :
       /\ n = 0 \/ n < min_images
       /\ sweep' = Append(sweep, n)
  /\ rendered' = rendered \cup {url}
  /\ error_log' =
       Append(error_log, [url |-> url, error_code |-> "INSUFFICIENT_IMAGES"])
  /\ all_image_data' = WithEntry(all_image_data, url, <<>>)
  /\ urlAt' = urlAt + 1
  /\ locPc' = "for"
  /\ UNCHANGED <<attempts, faults, stale,
                 url_list, page_limit, retries, min_images, retries_left,
                 server, found_sufficient_images, driver, pages_processed,
                 raising, live, OtherThanLoc>>

\* ExceptRetry without the retries_left -= 1 of line 157.
ExceptRetry_NoDecrement ==
  /\ locPc = "except"
  /\ retries_left - 1 > 0
  /\ Quit
  /\ locPc' = "reinit"
  /\ UNCHANGED <<attempts, faults, stale, url_list, page_limit, retries,
                 min_images, urlAt, retries_left, server,
                 found_sufficient_images, driver, all_image_data, error_log,
                 pages_processed, raising, sweep, rendered, OtherThanLoc>>

\* ExceptRetry leaving the old session open.
ExceptRetry_NoQuit ==
  /\ locPc = "except"
  /\ retries_left - 1 > 0
  /\ retries_left' = retries_left - 1
  /\ locPc' = "reinit"
  /\ UNCHANGED <<attempts, faults, stale,
                 url_list, page_limit, retries, min_images, urlAt, server,
                 found_sufficient_images, driver, all_image_data, error_log,
                 pages_processed, raising, live, sweep, rendered,
                 OtherThanLoc>>

\* lines 155-161: a retry is left, the existing driver is closed
ExceptRetry ==
  /\ locPc = "except"
  /\ retries_left - 1 > 0
  /\ retries_left' = retries_left - 1
  /\ Quit
  /\ locPc' = "reinit"
  /\ UNCHANGED <<attempts, faults, stale,
                 url_list, page_limit, retries, min_images, urlAt, server,
                 found_sufficient_images, driver, all_image_data, error_log,
                 pages_processed, raising, sweep, rendered,
                 OtherThanLoc>>

\* ExceptGiveUp letting the last exception out of the function.
ExceptGiveUp_Raises ==
  /\ locPc = "except"
  /\ ~(retries_left - 1 > 0)
  /\ retries_left' = retries_left - 1
  /\ raising' = TRUE
  /\ locPc' = "finally"
  /\ UNCHANGED <<attempts, faults, stale, url_list, page_limit, retries,
                 min_images, urlAt, server, found_sufficient_images, driver,
                 all_image_data, error_log, pages_processed, live, sweep,
                 rendered, OtherThanLoc>>

\* ExceptGiveUp without the empty list for the url.
ExceptGiveUp_NoEntry ==
  /\ locPc = "except"
  /\ ~(retries_left - 1 > 0)
  /\ retries_left' = retries_left - 1
  /\ error_log' =
       Append(error_log, [url |-> url, error_code |-> "PAGE_LOAD_ERROR",
                          details |-> "str(e)"])
  /\ urlAt' = urlAt + 1
  /\ locPc' = "for"
  /\ UNCHANGED <<attempts, faults, stale,
                 url_list, page_limit, retries, min_images, server,
                 found_sufficient_images, driver, all_image_data,
                 pages_processed, raising, live, sweep, rendered,
                 OtherThanLoc>>

\* lines 155-157, 164-168: no retry is left: PAGE_LOAD_ERROR, an empty list
ExceptGiveUp ==
  /\ locPc = "except"
  /\ ~(retries_left - 1 > 0)
  /\ retries_left' = retries_left - 1
  /\ error_log' =
       Append(error_log, [url |-> url, error_code |-> "PAGE_LOAD_ERROR",
                          details |-> "str(e)"])
  /\ all_image_data' = WithEntry(all_image_data, url, <<>>)
  /\ urlAt' = urlAt + 1
  /\ locPc' = "for"
  /\ UNCHANGED <<attempts, faults, stale,
                 url_list, page_limit, retries, min_images, server,
                 found_sufficient_images, driver, pages_processed, raising,
                 live, sweep, rendered, OtherThanLoc>>

\* lines 162-163: the driver is created again, then the sleep
ReinitDriver ==
  /\ locPc = "reinit"
  /\ NewSession
  /\ locPc' = "while"
  /\ UNCHANGED <<attempts, faults,
                 url_list, page_limit, retries, min_images, urlAt,
                 retries_left, server, found_sufficient_images,
                 all_image_data, error_log, pages_processed, raising, sweep,
                 rendered, OtherThanLoc>>

\* line 162, webdriver.Chrome raising inside the handler: the exception
\* leaves through finally, driver still naming the closed session
ReinitDriverFails ==
  /\ locPc = "reinit"
  /\ raising' = TRUE
  /\ locPc' = "finally"
  /\ UNCHANGED <<attempts, faults, stale,
                 url_list, page_limit, retries, min_images, urlAt,
                 retries_left, server, found_sufficient_images, driver,
                 all_image_data, error_log, pages_processed, live, sweep, rendered, OtherThanLoc>>

\* line 163, time.sleep raising inside the handler (a negative wait_time, an
\* interrupt): the driver is created again, then the exception leaves
\* through finally
SleepRaises ==
  /\ locPc = "reinit"
  /\ NewSession
  /\ raising' = TRUE
  /\ locPc' = "finally"
  /\ UNCHANGED <<attempts, faults,
                 url_list, page_limit, retries, min_images, urlAt,
                 retries_left, server, found_sufficient_images,
                 all_image_data, error_log, pages_processed, sweep,
                 rendered, OtherThanLoc>>

\* lines 121-130, an interruption that is no Exception (KeyboardInterrupt):
\* the handler of line 155 does not take it, it leaves through finally
RenderInterrupted ==
  /\ locPc = "render"
  /\ rendered' = rendered \cup {url}
  /\ sweep' = <<>>
  /\ raising' = TRUE
  /\ locPc' = "finally"
  /\ UNCHANGED <<attempts, faults, stale,
                 url_list, page_limit, retries, min_images, urlAt,
                 retries_left, server, found_sufficient_images, driver,
                 all_image_data, error_log, pages_processed, live,
                 OtherThanLoc>>

\* Finally without the driver.quit().
Finally_NoQuit ==
  /\ locPc = "finally"
  /\ locPc' = IF raising THEN "raised" ELSE "returned"
  /\ UNCHANGED <<attempts, faults, stale,
                 url_list, page_limit, retries, min_images, urlAt,
                 retries_left, server, found_sufficient_images, driver,
                 all_image_data, error_log, pages_processed, raising, live,
                 sweep, rendered, OtherThanLoc>>

\* lines 170-174: if driver: driver.quit(), then the return, or the
\* exception goes on
Finally ==
  /\ locPc = "finally"
  /\ Quit
  /\ locPc' = IF raising THEN "raised" ELSE "returned"
  /\ UNCHANGED <<attempts, faults, stale,
                 url_list, page_limit, retries, min_images, urlAt,
                 retries_left, server, found_sufficient_images, driver,
                 all_image_data, error_log, pages_processed, raising, sweep, rendered, OtherThanLoc>>

get_image_urls ==
  \/ StartDriver \/ StartDriverFails
  \/ ForExhausted \/ PageLimitReached \/ ForBody
  \/ AttemptSweep \/ NoRetriesLeft
  \/ RenderFault \/ RenderInterrupted
  \/ RenderAccept \/ RenderReject \/ RenderRejectLast
  \/ ExceptRetry \/ ExceptGiveUp
  \/ ReinitDriver \/ ReinitDriverFails \/ SleepRaises
  \/ Finally

NextLoc == get_image_urls

SpecLoc == InitLoc /\ [][NextLoc]_vars

\* ------------------------------------------------ get_image_urls: claims
Returned == locPc = "returned"

UrlsOf(list) == {list[i] : i \in 1..Len(list)}

\* C1 as stated: when get_image_urls returns, every identifier of the input
\* list is a key of the returned image mapping.
C1_TotalMapping ==
  Returned => \A i \in 1..Len(url_list) : url_list[i] \in DOMAIN all_image_data

\* C1: when get_image_urls returns, the keys of the mapping are identifiers
\* of the input list; every identifier for which a page was requested is a
\* key; with a retry budget of at least 1 every identifier the loop went
\* past is a key; and with no page cap the loop went past all of them. The
\* identifiers from the one at which the page cap stopped the loop on, and
\* all of them when the retry budget is 0, need not be keys.
C1_RequestedIdentifiersAreKeys ==
  Returned =>
    /\ DOMAIN all_image_data \subseteq UrlsOf(url_list)
    /\ rendered \subseteq DOMAIN all_image_data
    /\ retries >= 1 =>
         \A i \in 1..Len(url_list) :
           i < urlAt => url_list[i] \in DOMAIN all_image_data
    /\ page_limit = <<>> => urlAt = Len(url_list) + 1

C1_Witness ==
  /\ Returned
  /\ page_limit = <<>>
  /\ error_log # <<>>
  /\ \E u, v \in DOMAIN all_image_data :
       all_image_data[u] = <<>> /\ all_image_data[v] # <<>>

\* C5: at every point of get_image_urls at most one renderer session is
\* live, and none is live once control has left the function, by a return
\* or by an exception.
C5_OneSessionNoneOnExit ==
  /\ Cardinality(live) <= 1
  /\ locPc \in {"returned", "raised"} => live = {}

C5_Witness ==
  /\ locPc = "raised"
  /\ rendered # {}
  /\ driver # <<>>
  /\ retries_left < retries
  /\ live = {}

\* The state in which a sweep has just ended.
SweepOver == locPc = "for" /\ sweep # <<>>

\* all_image_data[url], for the url of the sweep that has just ended
Recorded == all_image_data[url_list[urlAt - 1]]

\* The first 160 entries of a list (all of them if it is shorter).
Truncated(list) ==
  [k \in 1..(IF Len(list) < 160 THEN Len(list) ELSE 160) |-> list[k]]

\* C6 as stated: the list recorded in a sweep is the list of the
\* lowest-numbered mirror that returned at least min_images images,
\* truncated to 160.
C6_LowestMirrorWithMinimum ==
  (SweepOver /\ found_sufficient_images) =>
    \E s \in 1..Len(sweep) :
      /\ sweep[s] >= min_images
      /\ \A t \in 1..(s - 1) : ~(sweep[t] >= min_images)
      /\ Recorded = Truncated(ImageSrcUrls(s, sweep[s]))

\* A page that holds at least one image and at least min_images of them.
Qualifies(n) == n > 0 /\ n >= min_images

\* C6: the list recorded in a sweep is the list of the lowest-numbered
\* mirror that returned at least one image and at least min_images images,
\* truncated to 160, with nothing of the mirrors tried before it; when none
\* of the four mirrors returned such a list the recorded list is empty.
C6_LowestNonEmptyMirrorWithMinimum ==
  /\ (SweepOver /\ found_sufficient_images) =>
       \E s \in 1..Len(sweep) :
         /\ Qualifies(sweep[s])
         /\ \A t \in 1..(s - 1) : ~Qualifies(sweep[t])
         /\ Recorded = Truncated(ImageSrcUrls(s, sweep[s]))
  /\ (SweepOver /\ ~found_sufficient_images) =>
       /\ Len(sweep) = NumServers
       /\ \A t \in 1..Len(sweep) : ~Qualifies(sweep[t])
       /\ Recorded = <<>>

C6_Witness ==
  /\ SweepOver
  /\ found_sufficient_images
  /\ min_images = 10
  /\ sweep = <<7, 7, 12>>
  /\ Recorded = ImageSrcUrls(3, 12)

\* C7: in every reachable state of get_image_urls, the returned mapping
\* included, the list of each identifier has at most 160 entries.
C7_AtMost160PerIdentifier ==
  \A u \in DOMAIN all_image_data : Len(all_image_data[u]) <= 160

C7_Witness ==
  /\ Returned
  /\ \E u \in DOMAIN all_image_data : Len(all_image_data[u]) = 160

\* A render call returns (no exception) and ends a sweep of all the mirrors
\* in which none gave at least min_images images.
SweepEndsInsufficient ==
  /\ locPc = "render"
  /\ Len(sweep') = NumServers
  /\ \A t \in 1..NumServers : sweep'[t] < min_images

\* C11: the step that ends a sweep of all 4 mirrors with no exception and no
\* mirror giving at least min_images images appends exactly one
\* INSUFFICIENT_IMAGES record for the url, maps the url to the empty list and
\* leaves the retry loop with the budget untouched; the loop never comes back
\* to a position of the list it has left, so no render call follows for it.
C11_InsufficientIsTerminal ==
  [][ /\ urlAt' >= urlAt
      /\ SweepEndsInsufficient =>
           /\ error_log' =
                Append(error_log,
                       [url |-> url, error_code |-> "INSUFFICIENT_IMAGES"])
           /\ url \in DOMAIN all_image_data'
           /\ all_image_data'[url] = <<>>
           /\ retries_left' = retries_left
           /\ urlAt' = urlAt + 1
           /\ locPc' = "for" ]_vars

C11_Witness ==
  /\ SweepOver
  /\ ~found_sufficient_images
  /\ min_images = DefaultMinImages
  /\ \A t \in 1..Len(sweep) : sweep[t] < min_images
  /\ retries_left >= 2
  /\ Recorded = <<>>
  /\ error_log # <<>>
  /\ error_log[Len(error_log)] =
       [url |-> url_list[urlAt - 1], error_code |-> "INSUFFICIENT_IMAGES"]

\* The step appends one PAGE_LOAD_ERROR record for the url, with the detail
\* of the exception, maps the url to the empty list and goes on to the next
\* position of the list.
LogsPageLoadError ==
  /\ error_log' =
       Append(error_log, [url |-> url, error_code |-> "PAGE_LOAD_ERROR",
                          details |-> "str(e)"])
  /\ url \in DOMAIN all_image_data'
  /\ all_image_data'[url] = <<>>
  /\ urlAt' = urlAt + 1
  /\ locPc' = "for"
  /\ ~raising'

\* The step appends a PAGE_LOAD_ERROR record.
AppendsPageLoadError ==
  /\ Len(error_log') > Len(error_log)
  /\ error_log'[Len(error_log')].error_code = "PAGE_LOAD_ERROR"

\* C12: with retry budget retries, when the attempt that a rendering
\* exception has just ended is the retries-th such attempt for the url, the
\* handler appends one PAGE_LOAD_ERROR record with the detail of the
\* exception, maps the url to the empty list and goes on with the next url;
\* a PAGE_LOAD_ERROR record is appended in no other step; and no more than
\* retries attempts are made for a url.
C12_PageLoadErrorAfterBudget ==
  [][ /\ (locPc = "except" /\ faults = retries) => LogsPageLoadError
      /\ AppendsPageLoadError =>
           /\ locPc = "except"
           /\ faults = retries
           /\ attempts = retries
           /\ LogsPageLoadError
      /\ faults' <= attempts'
      /\ attempts' <= retries ]_vars

C12_Witness ==
  /\ locPc = "render"
  /\ urlAt = 2
  /\ retries >= 2
  /\ error_log = << [url |-> url_list[1], error_code |-> "PAGE_LOAD_ERROR",
                     details |-> "str(e)"] >>
  /\ all_image_data[url_list[1]] = <<>>

\* C13: a render call is never made on a session on which a rendering
\* exception was raised: whenever the function is about to make a render
\* call, the session driver names was created after the last rendering
\* exception.
C13_RenderOnFreshSession == locPc = "render" => ~stale

\* The identifiers mapped to a list that is not empty.
Located(mapping) == {u \in DOMAIN mapping : mapping[u] # <<>>}

\* C14: with a page cap, the count that is compared with the cap grows only
\* in a step that records a list that is not empty for the url, and by one
\* (a step that logs an error leaves it alone); it never exceeds the cap; at
\* most that many identifiers are mapped to a list that is not empty; and a
\* render call is made only while the count is below the cap.
C14_CapCountsSuccesses ==
  [][ page_limit # <<>> =>
        /\ locPc = "render" => pages_processed < page_limit[1]
        /\ pages_processed' # pages_processed =>
             /\ locPc = "render"
             /\ pages_processed' = pages_processed + 1
             /\ url \in Located(all_image_data')
             /\ error_log' = error_log
        /\ pages_processed' <= page_limit[1]
        /\ Cardinality(Located(all_image_data')) <= pages_processed' ]_vars

C14_Witness ==
  /\ Returned
  /\ page_limit = <<1>>
  /\ pages_processed = 1
  /\ Len(url_list) = 2
  /\ urlAt = 2
  /\ url_list[1] \in Located(all_image_data)
  /\ url_list[2] \notin rendered

\* The identifier has a record in the log.
HasRecord(log, u) == \E k \in 1..Len(log) : log[k].url = u

\* The identifier is mapped to the empty list.
MappedToEmpty(mapping, u) == u \in DOMAIN mapping /\ mapping[u] = <<>>

\* The input list names the identifier once.
NamedOnce(u) == Cardinality({i \in 1..Len(url_list) : url_list[i] = u}) = 1

\* C15 as stated: when get_image_urls returns, an identifier has a record in
\* the error log if and only if it is mapped to the empty list, whatever the
\* input list, one that names an identifier more than once included.
C15_RecordIffEmptyList ==
  Returned =>
    \A u \in Urls :
      HasRecord(error_log, u) <=> MappedToEmpty(all_image_data, u)

\* C15: when get_image_urls returns, every identifier mapped to the empty
\* list has a record in the error log, every identifier with a record is a
\* key of the mapping, and is mapped to the empty list if the input list
\* names it once (named again, it is mapped to the list of its last
\* occurrence, empty or not); and every step keeps the records of the log as
\* they are, adding at the end only.
C15_EmptyListHasRecordLogOnlyGrows ==
  [][ /\ Len(error_log') >= Len(error_log)
      /\ SubSeq(error_log', 1, Len(error_log)) = error_log
      /\ Returned' =>
           \A u \in Urls :
             /\ MappedToEmpty(all_image_data', u) => HasRecord(error_log', u)
             /\ HasRecord(error_log', u) => u \in DOMAIN all_image_data'
             /\ (HasRecord(error_log', u) /\ NamedOnce(u)) =>
                  MappedToEmpty(all_image_data', u) ]_vars

C15_Witness ==
  /\ Returned
  /\ Len(url_list) = 2
  /\ url_list[1] = url_list[2]
  /\ Len(error_log) = 2
  /\ error_log[1].error_code # error_log[2].error_code
  /\ MappedToEmpty(all_image_data, url_list[1])

\* get_image_urls run by one thread that goes on as long as it has a step to
\* take: every call it makes (the creation of a session, a render call,
\* quit, sleep) comes back, with a value or with an exception.
\* The calls of InitLoc with the default min_images, and no page limit or a
\* limit of one page: neither argument is read by the tests that end the
\* loops, except for the break of lines 109-111.
InitLocFair ==
  /\ InitLoc
  /\ min_images = DefaultMinImages
  /\ page_limit \in {<<>>, <<1>>}

SpecLocFair == InitLocFair /\ [][NextLoc]_vars /\ WF_vars(NextLoc)

\* An exception has left the function.
Raised == locPc = "raised"

\* The retry loop of the url at hand: every attempt but the one that is
\* running was ended by an exception (each time the test of the while is
\* made again, each attempt made has ended so), no more than retries
\* attempts are ended by an exception, and an attempt makes no more than
\* NumServers render calls.
LoopBounds ==
  /\ faults <= attempts
  /\ attempts <= faults + 1
  /\ locPc \in {"while", "except", "reinit"} => attempts = faults
  /\ locPc = "render" => attempts = faults + 1
  /\ faults <= retries
  /\ Len(sweep) <= NumServers
  /\ locPc = "render" => Len(sweep) = server - 1 /\ server <= NumServers

\* C21 as stated: for every list and every retry budget, with every call
\* coming back, the retry loop of each url keeps within its bounds (no more
\* than retries attempts ended by an exception, none after a completed
\* sweep, no more than 4 render calls in an attempt) and the function
\* returns its mapping and error log.
C21_TerminatesReturning == [](LoopBounds) /\ <>Returned

\* C21: for every list and every retry budget, with every call coming back,
\* the retry loop of each url keeps within its bounds (no more than retries
\* attempts ended by an exception, none after a completed sweep, no more
\* than 4 render calls in an attempt) and the function ends: it returns its
\* mapping and error log, or an exception leaves it (one raised by the
\* creation of a session, by the sleep of the handler, or an interruption
\* of a render call that the handler does not take).
C21_TerminatesReturningOrRaising ==
  [](LoopBounds) /\ <>(Returned \/ Raised)

C21_Witness ==
  /\ Returned
  /\ retries = MaxRetries
  /\ Len(url_list) = MaxUrls
  /\ faults = retries
  /\ \E i, j \in 1..Len(error_log) :
       /\ error_log[i].error_code = "INSUFFICIENT_IMAGES"
       /\ error_log[j].error_code = "PAGE_LOAD_ERROR"

\* ------------------------------------------------- convert_chapter_pdfs
\* The files of the whole tree under manga_folder, at most.
MaxTreeFiles == 3

\* ord() of the characters of the names.
CodePoint(c) ==
  IF c = "-" THEN 45
  ELSE IF c = "." THEN 46
  ELSE IF c = "_" THEN 95
  ELSE IF IsDigit(c)
  THEN 48 + DigitVal(c)
  ELSE IF \E k \in 1..Len(UpperCase) : UpperCase[k] = c
  THEN 64 + (CHOOSE k \in 1..Len(UpperCase) : UpperCase[k] = c)
  ELSE 96 + (CHOOSE k \in 1..Len(LowerCase) : LowerCase[k] = c)

\* a < b on str
StrLess(a, b) ==
  \E k \in 1..(Len(b)) :
    /\ \A h \in 1..(k - 1) : h <= Len(a) /\ a[h] = b[h]
    /\ k > Len(a) \/ CodePoint(a[k]) < CodePoint(b[k])

\* sorted(...) on a set of distinct str
SortedNames(S) ==
  [q \in 1..Cardinality(S) |->
     CHOOSE n \in S : Cardinality({m \in S : StrLess(m, n)}) = q - 1]

\* str.endswith
EndsWith(str, suffix) ==
  /\ Len(str) >= Len(suffix)
  /\ SubSeq(str, Len(str) - Len(suffix) + 1, Len(str)) = suffix

ImageSuffixes ==
  { <<".","j","p","g">>, <<".","j","p","e","g">>, <<".","p","n","g">> }

\* f.lower().endswith((".jpg", ".jpeg", ".png"))
IsImageName(f) == \E suffix \in ImageSuffixes : EndsWith(Lower(f), suffix)

File_0jpg == <<"0",".","j","p","g">>
File_1PNG == <<"1",".","P","N","G">>
File_ntxt == <<"n",".","t","x","t">>

TreeFileNames == {File_0jpg, File_1PNG, File_ntxt}

\* Those of them that have an image name, computed once.
ImageNames == {n \in TreeFileNames : IsImageName(n)}

\* What Image.open(...).convert("RGB") does on a file with an image name:
\* it returns ("image"), raises UnidentifiedImageError ("corrupt") or raises
\* another exception ("unreadable"). A file of another name is never opened.
ImageKinds == {"image", "corrupt", "unreadable"}

\* The files a subfolder may hold.
FolderContents ==
  UNION { { f \in [S -> ImageKinds \cup {"other"}] :
              \A n \in S : (f[n] = "other") <=> n \notin ImageNames } :
          S \in SUBSET TreeFileNames }

\* The subfolders: two chapters, and a folder inside the first.
Dir_c1 == <<"c1">>
Dir_c2 == <<"c2">>
Dir_c1c2 == <<"c1", "c2">>
TreeDirs == {Dir_c1, Dir_c2, Dir_c1c2}

\* os.path.basename(root)
Basename(root) == root[Len(root)]

\* The folder that holds root (<<>> is manga_folder).
Parent(root) == SubSeq(root, 1, Len(root) - 1)

Children(root, D) == {d \in D : Parent(d) = root}

TreeFileCount(c) ==
  Cardinality(UNION { { <<d, n>> : n \in DOMAIN c[d] } : d \in DOMAIN c })

\* sorted(...) of all the file names, computed once.
NamesInOrder ==
  SubSeq(SortedNames(TreeFileNames), 1, Cardinality(TreeFileNames))

\* The image names in reverse order.
ImagesOf_Reversed(fs) ==
  LET asc == SelectSeq(NamesInOrder,
                       LAMBDA n : n \in DOMAIN fs /\ n \in ImageNames)
  IN  [k \in 1..Len(asc) |-> asc[Len(asc) + 1 - k]]

\* images = sorted([f for f in files if f.lower().endswith(...)]): the names
\* being distinct, the sorted list of some of them is the sorted list of all
\* of them without the others
ImagesOf(fs) ==
  SelectSeq(NamesInOrder, LAMBDA n : n \in DOMAIN fs /\ n \in ImageNames)

\* valid_images, each image known by the file it was decoded from
ValidImagesOf(fs) == SelectSeq(ImagesOf(fs), LAMBDA n : fs[n] = "image")

\* folder_has_errors that no decode failure sets.
folder_has_errors_Never(fs) == FALSE

\* folder_has_errors after the loop of lines 361-372
folder_has_errors(fs) ==
  \E img \in DOMAIN fs \cap ImageNames : fs[img] # "image"

\* valid_images[0].save(pdf_filename, save_all=True, append_images=...)
Saved(documents, root, fs) ==
  [d \in DOMAIN documents \cup {Basename(root)} |->
     IF d = Basename(root) THEN [k \in 1..Len(ValidImagesOf(fs)) |->
                                   <<root, ValidImagesOf(fs)[k]>>]
     ELSE documents[d]]

\* The subfolder loses the files of the set gone.
Without(c, root, gone) ==
  [c EXCEPT ![root] = [n \in DOMAIN c[root] \ gone |-> c[root][n]]]

InitAsm ==
  /\ IdleSeq
  /\ IdleNorm
  /\ IdleLoc
  /\ IdleMrg
  /\ IdleDl
  /\ asmPc = "start"
  /\ manga_exists \in BOOLEAN
  /\ dirs \in {D \in SUBSET TreeDirs :
                 /\ \A d \in D : Parent(d) = <<>> \/ Parent(d) \in D
                 /\ ~manga_exists => D = {}}
  /\ contents \in {c \in [dirs -> FolderContents] :
                     TreeFileCount(c) <= MaxTreeFiles}
  /\ pdfs = <<>>
  /\ error_folders = <<>>
  /\ walked = {}
  /\ dirs0 = dirs
  /\ contents0 = contents
  /\ fault = [d \in dirs |-> "none"]

\* lines 343-345: the folder does not exist
MissingFolder ==
  /\ asmPc = "start"
  /\ ~manga_exists
  /\ asmPc' = "done"
  /\ UNCHANGED <<manga_exists, dirs, contents, pdfs, error_folders, walked,
                 dirs0, contents0, fault, OtherThanAsm>>

\* lines 347-350: the walk starts
StartWalk ==
  /\ asmPc = "start"
  /\ manga_exists
  /\ asmPc' = "walk"
  /\ UNCHANGED <<manga_exists, dirs, contents, pdfs, error_folders, walked,
                 dirs0, contents0, fault, OtherThanAsm>>

\* os.walk(manga_folder, topdown=False): the subfolders it may yield next. A
\* folder comes after the folders inside it, and straight after the last of
\* them; the folders of one directory come in the order of its listing,
\* which is any order.
NextRoots ==
  LET ready == {d \in dirs0 \ walked : Children(d, dirs0) \subseteq walked}
      open  == {d \in ready : Children(d, dirs0) # {}}
  IN  IF open # {} THEN open ELSE ready

\* lines 356-360, 402-404: no file of the subfolder has an image name
NoImages ==
  /\ asmPc = "walk"
  /\ \E root \in NextRoots :
       /\ ImagesOf(contents[root]) = <<>>
       /\ error_folders' = Append(error_folders, root)
       /\ walked' = walked \cup {root}
  /\ UNCHANGED <<asmPc, manga_exists, dirs, contents, pdfs, dirs0, contents0,
                 fault, OtherThanAsm>>

\* lines 361-374, 399-401: no image of the subfolder decodes
NoValidImages ==
  /\ asmPc = "walk"
  /\ \E root \in NextRoots :
       /\ ImagesOf(contents[root]) # <<>>
       /\ ValidImagesOf(contents[root]) = <<>>
       /\ error_folders' = Append(error_folders, root)
       /\ walked' = walked \cup {root}
  /\ UNCHANGED <<asmPc, manga_exists, dirs, contents, pdfs, dirs0, contents0,
                 fault, OtherThanAsm>>

\* lines 375-380, 396-398: the save raises; no document is counted as written
SaveFails ==
  /\ asmPc = "walk"
  /\ \E root \in NextRoots :
       /\ ValidImagesOf(contents[root]) # <<>>
       /\ fault' = [fault EXCEPT ![root] = "save"]
       /\ error_folders' = Append(error_folders, root)
       /\ walked' = walked \cup {root}
  /\ UNCHANGED <<asmPc, manga_exists, dirs, contents, pdfs, dirs0, contents0,
                 OtherThanAsm>>

\* lines 375-384, 393-395: the document is saved, the subfolder had errors
KeepWithErrors ==
  /\ asmPc = "walk"
  /\ \E root \in NextRoots :
       /\ ValidImagesOf(contents[root]) # <<>>
       /\ folder_has_errors(contents[root])
       /\ pdfs' = Saved(pdfs, root, contents[root])
       /\ error_folders' = Append(error_folders, root)
       /\ walked' = walked \cup {root}
  /\ UNCHANGED <<asmPc, manga_exists, dirs, contents, dirs0, contents0,
                 fault, OtherThanAsm>>

\* lines 375-390: the document is saved, the subfolder had no error: its
\* files are removed, then the subfolder
DeleteFolder ==
  /\ asmPc = "walk"
  /\ \E root \in NextRoots :
       /\ ValidImagesOf(contents[root]) # <<>>
       /\ ~folder_has_errors(contents[root])
       /\ Children(root, dirs) = {}
       /\ pdfs' = Saved(pdfs, root, contents[root])
       /\ dirs' = dirs \ {root}
       /\ contents' = [d \in dirs \ {root} |-> contents[d]]
       /\ walked' = walked \cup {root}
  /\ UNCHANGED <<asmPc, manga_exists, error_folders, dirs0, contents0, fault,
                 OtherThanAsm>>

\* lines 375-388, 391-392: os.remove raises on one of the files, after the
\* files of the set gone were removed (files comes in the order of the
\* listing, which is any order)
RemoveFails ==
  /\ asmPc = "walk"
  /\ \E root \in NextRoots :
       /\ ValidImagesOf(contents[root]) # <<>>
       /\ ~folder_has_errors(contents[root])
       /\ pdfs' = Saved(pdfs, root, contents[root])
       /\ \E gone \in SUBSET DOMAIN contents[root] :
            /\ gone # DOMAIN contents[root]
            /\ contents' = Without(contents, root, gone)
       /\ fault' = [fault EXCEPT ![root] = "remove"]
       /\ walked' = walked \cup {root}
  /\ UNCHANGED <<asmPc, manga_exists, dirs, error_folders, dirs0, contents0,
                 OtherThanAsm>>

\* lines 375-389, 391-392: every file is removed, os.rmdir raises because a
\* folder inside the subfolder is still there
RmdirNotEmpty ==
  /\ asmPc = "walk"
  /\ \E root \in NextRoots :
       /\ ValidImagesOf(contents[root]) # <<>>
       /\ ~folder_has_errors(contents[root])
       /\ Children(root, dirs) # {}
       /\ pdfs' = Saved(pdfs, root, contents[root])
       /\ contents' = Without(contents, root, DOMAIN contents[root])
       /\ walked' = walked \cup {root}
  /\ UNCHANGED <<asmPc, manga_exists, dirs, error_folders, dirs0, contents0,
                 fault, OtherThanAsm>>

\* the same, os.rmdir raising on an empty subfolder
RmdirFails ==
  /\ asmPc = "walk"
  /\ \E root \in NextRoots :
       /\ ValidImagesOf(contents[root]) # <<>>
       /\ ~folder_has_errors(contents[root])
       /\ Children(root, dirs) = {}
       /\ pdfs' = Saved(pdfs, root, contents[root])
       /\ contents' = Without(contents, root, DOMAIN contents[root])
       /\ fault' = [fault EXCEPT ![root] = "rmdir"]
       /\ walked' = walked \cup {root}
  /\ UNCHANGED <<asmPc, manga_exists, dirs, error_folders, dirs0, contents0,
                 OtherThanAsm>>

\* lines 350, 352-353, 406-412: the walk ends with manga_folder itself, which
\* is skipped; then the summary
WalkDone ==
  /\ asmPc = "walk"
  /\ walked = dirs0
  /\ asmPc' = "done"
  /\ UNCHANGED <<manga_exists, dirs, contents, pdfs, error_folders, walked,
                 dirs0, contents0, fault, OtherThanAsm>>

convert_chapter_pdfs ==
  \/ MissingFolder \/ StartWalk
  \/ NoImages \/ NoValidImages \/ SaveFails \/ KeepWithErrors
  \/ DeleteFolder \/ RemoveFails \/ RmdirNotEmpty \/ RmdirFails
  \/ WalkDone

NextAsm == convert_chapter_pdfs

SpecAsm == InitAsm /\ [][NextAsm]_vars

\* ------------------------------------------- convert_chapter_pdfs: claims
AsmDone == asmPc = "done"

\* The image files the subfolder held when the function was called.
ImageFilesOf(d) == DOMAIN contents0[d] \cap ImageNames

AllDecoded(d) == \A n \in ImageFilesOf(d) : contents0[d][n] = "image"

SomeNotDecoded(d) == \E n \in ImageFilesOf(d) : contents0[d][n] # "image"

\* The subfolder and all of its files are still there.
Untouched(d) == d \in dirs /\ contents[d] = contents0[d]

\* C2 as stated: after the run a subfolder is deleted if and only if every
\* image file in it decoded, and a subfolder with an image that did not
\* decode is still there with all of its files.
C2_DeletedIffAllDecoded ==
  AsmDone =>
    \A d \in dirs0 :
      /\ d \notin dirs <=> AllDecoded(d)
      /\ SomeNotDecoded(d) => Untouched(d)

\* C2: after the run a subfolder is deleted only if it held at least one
\* image file and every image file in it decoded; such a subfolder is deleted
\* when the save, every os.remove and the os.rmdir succeed and no folder
\* inside it is left; and a subfolder with an image that did not decode is
\* still there with all of its files.
C2_DeletedOnlyIfAllDecoded ==
  AsmDone =>
    \A d \in dirs0 :
      /\ d \notin dirs => (ImageFilesOf(d) # {} /\ AllDecoded(d))
      /\ ( /\ ImageFilesOf(d) # {}
           /\ AllDecoded(d)
           /\ fault[d] = "none"
           /\ Children(d, dirs) = {} ) => d \notin dirs
      /\ SomeNotDecoded(d) => Untouched(d)

C2_Witness ==
  /\ AsmDone
  /\ \E d, e \in dirs0 :
       /\ d \notin dirs
       /\ Basename(d) \in DOMAIN pdfs
       /\ SomeNotDecoded(e)
       /\ Basename(e) \in DOMAIN pdfs
       /\ Untouched(e)

\* The subfolder is in the report of the retained folders.
Reported(d) == \E k \in 1..Len(error_folders) : error_folders[k] = d

\* The deletion of the subfolder was started (its images all decoded and the
\* document was saved) and the subfolder is still there.
DeletionFailed(d) ==
  /\ d \in dirs
  /\ ImageFilesOf(d) # {}
  /\ AllDecoded(d)
  /\ fault[d] # "save"

\* C16: after the run every subfolder that still exists is in error_folders,
\* one whose deletion failed included, and a subfolder whose deletion failed
\* still has all of its files.
C16_RetainedReportedUntouched ==
  AsmDone =>
    \A d \in dirs :
      /\ Reported(d)
      /\ DeletionFailed(d) => contents[d] = contents0[d]

\* The image files of the subfolder that decode.
DecodedOf(d) == {n \in ImageFilesOf(d) : contents0[d][n] = "image"}

\* The pages are the decoded images of the subfolder, each once, in the
\* order of their file names.
PagesOfDecoded(pages, d) ==
  /\ Len(pages) = Cardinality(DecodedOf(d))
  /\ \A k \in 1..Len(pages) :
       /\ pages[k][1] = d
       /\ pages[k][2] \in DecodedOf(d)
       /\ \A j \in 1..(k - 1) : StrLess(pages[j][2], pages[k][2])

\* The subfolder that the step yields.
Yielded == CHOOSE d \in walked' \ walked : TRUE

\* C17 as stated: after the run there is a document for a subfolder if and
\* only if at least one image of the subfolder decoded, and its pages are the
\* decoded images in the order of their file names.
C17_DocumentIffSomeDecoded ==
  AsmDone =>
    \A d \in dirs0 :
      /\ Basename(d) \in DOMAIN pdfs <=> DecodedOf(d) # {}
      /\ DecodedOf(d) # {} => PagesOfDecoded(pdfs[Basename(d)], d)

\* C17: the step that processes a subfolder writes a document if and only if
\* at least one image of the subfolder decodes and the save does not fail;
\* the document is named after the last component of the subfolder's path
\* (it replaces one of that name) and its pages are exactly the decoded
\* images in the order of their file names; when no image decodes, or the
\* save fails, no document is written and the subfolder is kept and added to
\* error_folders.
C17_DocumentOfDecodedImages ==
  [][ walked' # walked =>
        /\ (DecodedOf(Yielded) # {} /\ fault'[Yielded] # "save") =>
             /\ DOMAIN pdfs' = DOMAIN pdfs \cup {Basename(Yielded)}
             /\ PagesOfDecoded(pdfs'[Basename(Yielded)], Yielded)
             /\ \A b \in DOMAIN pdfs \ {Basename(Yielded)} :
                  pdfs'[b] = pdfs[b]
        /\ (DecodedOf(Yielded) = {} \/ fault'[Yielded] = "save") =>
             /\ pdfs' = pdfs
             /\ Yielded \in dirs'
             /\ contents'[Yielded] = contents0[Yielded]
             /\ error_folders' = Append(error_folders, Yielded) ]_vars

C17_Witness ==
  /\ AsmDone
  /\ \E d, e \in dirs0 :
       /\ Basename(d) # Basename(e)
       /\ Basename(d) \in DOMAIN pdfs
       /\ pdfs[Basename(d)] = << <<d, File_0jpg>>, <<d, File_1PNG>> >>
       /\ ImageFilesOf(e) # {}
       /\ DecodedOf(e) = {}
       /\ Basename(e) \notin DOMAIN pdfs
       /\ Untouched(e)
       /\ Reported(e)

\* ------------------------------------- reorder_files_in_place: the listing
\* The names of the folder in lexical order.
LexicalListing == SortedNames(DOMAIN folder)

\* The names the pass gives the entries, in the order of their keys.
NewNamesInKeyOrder ==
  [k \in 1..Len(sorted_files) |-> NewFilename(k, sorted_files[k])]

\* C18: after a pass of reorder_files_in_place, the names of the folder
\* listed in lexical order are the entries the pass listed, under their new
\* names, in the order of their keys.
C18_LexicalListingIsKeyOrder ==
  (normPc = "ready" /\ orders # <<>>) => LexicalListing = NewNamesInKeyOrder

\* The files of the folder, each known by the name it had at the start.
FilesIn(dir) == {dir[n] : n \in DOMAIN dir}

\* The turn of the renaming loop that is next renames an entry the folder
\* holds to a name no entry of the folder has.
RenameIsSafe ==
  LET filename == sorted_files[renamed + 1]
      new_filename == NewFilename(renamed + 1, filename)
  IN  /\ filename \in DOMAIN folder
      /\ new_filename \notin DOMAIN folder

\* C22: a pass of reorder_files_in_place works on the listing taken before
\* its first rename and loses nothing: the listing names every entry of the
\* folder once and no rename changes it, no rename replaces an entry of the
\* folder, every step leaves the folder the files and the number of entries
\* it had, and when the pass is over the entries are those of the listing
\* under their new names.
C22_PassLosesNothing ==
  [][ /\ (normPc = "ready" /\ normPc' = "rename") =>
           /\ Len(sorted_files') = Cardinality(DOMAIN folder)
           /\ {sorted_files'[k] : k \in 1..Len(sorted_files')} = DOMAIN folder
      /\ normPc = "rename" => sorted_files' = sorted_files
      /\ (normPc = "rename" /\ renamed' = renamed + 1) => RenameIsSafe
      /\ FilesIn(folder') = FilesIn(folder)
      /\ Cardinality(DOMAIN folder') = Cardinality(DOMAIN folder)
      /\ (normPc = "rename" /\ normPc' = "ready") =>
           DOMAIN folder' =
             {NewNamesInKeyOrder[k] : k \in 1..Len(sorted_files)} ]_vars

\* -------------------------------------- append_pdfs_to_manga_collection
\* The files of the input folder, at most.
MaxInputFiles == 3

In_0PDF == <<"0",".","P","D","F">>
In_1pdf == <<"1",".","p","d","f">>
In_apdf == <<"a",".","p","d","f">>

InputNames == {In_0PDF, In_1pdf, In_apdf, File_ntxt}

\* f.lower().endswith(".pdf")
IsPdfName(f) == EndsWith(Lower(f), <<".","p","d","f">>)

\* The names of documents, and sorted(...) of all the names, computed once.
PdfNames == {n \in InputNames : IsPdfName(n)}
InputNamesInOrder ==
  SubSeq(SortedNames(InputNames), 1, Cardinality(InputNames))

\* What pikepdf.open does on a file with a document name: it returns ("pdf")
\* or raises ("broken"). A file of another name is never opened.
PdfKinds == {"pdf", "broken"}

\* The files the input folder may hold.
InputContents ==
  UNION { { f \in [S -> PdfKinds \cup {"other"}] :
              \A n \in S : (f[n] = "other") <=> n \notin PdfNames } :
          S \in {T \in SUBSET InputNames : Cardinality(T) <= MaxInputFiles} }

\* Where a folder named collection_folder_name may be: in the home directory
\* or in a folder of the home directory.
Collection_home == <<"Manga Collection">>
Collection_nested == <<"x", "Manga Collection">>
CollectionPlaces == {Collection_home, Collection_nested}

\* os.walk(home_directory), top down, stopped at the first directory that
\* holds a folder of the name: the home directory is looked at first.
FirstFound(D) ==
  IF Collection_home \in D THEN Collection_home ELSE Collection_nested

\* [os.path.join(input_folder, f) for f in sorted(os.listdir(input_folder))
\*  if f.lower().endswith(".pdf")]
PdfFilesOf(fs) ==
  SelectSeq(InputNamesInOrder, LAMBDA n : n \in DOMAIN fs /\ n \in PdfNames)

InitMrg ==
  /\ IdleSeq
  /\ IdleNorm
  /\ IdleLoc
  /\ IdleAsm
  /\ IdleDl
  /\ mrgPc = "start"
  /\ input_exists \in BOOLEAN
  /\ input_files \in IF input_exists THEN InputContents ELSE {<<>>}
  /\ collection_dirs \in SUBSET CollectionPlaces
  /\ collection_folder_path = <<>>
  /\ pdf_files = <<>>
  /\ merged_pdf = <<>>
  /\ appended = 0
  /\ collection_docs = <<>>
  /\ printed = <<>>
  /\ collection_dirs0 = collection_dirs

\* lines 523-525: the input folder does not exist
MissingInput ==
  /\ mrgPc = "start"
  /\ ~input_exists
  /\ printed' = Append(printed, "does not exist")
  /\ mrgPc' = "done"
  /\ UNCHANGED <<input_exists, input_files, collection_dirs,
                 collection_folder_path, pdf_files, merged_pdf, appended,
                 collection_docs, collection_dirs0, OtherThanMrg>>

\* lines 523, 528, 496-499: a folder of the name is found
FindCollection ==
  /\ mrgPc = "start"
  /\ input_exists
  /\ collection_dirs # {}
  /\ collection_folder_path' = <<FirstFound(collection_dirs)>>
  /\ mrgPc' = "list"
  /\ UNCHANGED <<input_exists, input_files, collection_dirs, pdf_files,
                 merged_pdf, appended, collection_docs, printed,
                 collection_dirs0, OtherThanMrg>>

\* lines 523, 528, 496-505: none is found, it is created in the home
\* directory
CreateCollection ==
  /\ mrgPc = "start"
  /\ input_exists
  /\ collection_dirs = {}
  /\ collection_dirs' = {Collection_home}
  /\ collection_folder_path' = <<Collection_home>>
  /\ printed' = Append(printed, "folder not found. Created")
  /\ mrgPc' = "list"
  /\ UNCHANGED <<input_exists, input_files, pdf_files, merged_pdf, appended,
                 collection_docs, collection_dirs0, OtherThanMrg>>

\* lines 531-539: the input folder holds no file with a document name
NoPdfFiles ==
  /\ mrgPc = "list"
  /\ PdfFilesOf(input_files) = <<>>
  /\ printed' = Append(printed, "No PDF files found")
  /\ mrgPc' = "done"
  /\ UNCHANGED <<input_exists, input_files, collection_dirs,
                 collection_folder_path, pdf_files, merged_pdf, appended,
                 collection_docs, collection_dirs0, OtherThanMrg>>

\* lines 531-544: it holds some, a new document is started
StartMerge ==
  /\ mrgPc = "list"
  /\ PdfFilesOf(input_files) # <<>>
  /\ pdf_files' = PdfFilesOf(input_files)
  /\ merged_pdf' = <<>>
  /\ appended' = 0
  /\ printed' = Append(printed, "Found PDFs. Merging them")
  /\ mrgPc' = "append"
  /\ UNCHANGED <<input_exists, input_files, collection_dirs,
                 collection_folder_path, collection_docs, collection_dirs0,
                 OtherThanMrg>>

\* lines 547-550: one turn of the loop, the pages of the next document (one
\* page each) are appended
AppendNext ==
  /\ mrgPc = "append"
  /\ appended < Len(pdf_files)
  /\ input_files[pdf_files[appended + 1]] = "pdf"
  /\ merged_pdf' = Append(merged_pdf, pdf_files[appended + 1])
  /\ appended' = appended + 1
  /\ UNCHANGED <<mrgPc, input_exists, input_files, collection_dirs,
                 collection_folder_path, pdf_files, collection_docs, printed,
                 collection_dirs0, OtherThanMrg>>

\* line 549: pikepdf.open raises, the exception leaves the function
OpenRaises ==
  /\ mrgPc = "append"
  /\ appended < Len(pdf_files)
  /\ input_files[pdf_files[appended + 1]] = "broken"
  /\ mrgPc' = "raised"
  /\ UNCHANGED <<input_exists, input_files, collection_dirs,
                 collection_folder_path, pdf_files, merged_pdf, appended,
                 collection_docs, printed, collection_dirs0, OtherThanMrg>>

\* lines 553-558: the new document is saved in the collection folder
SaveMerged ==
  /\ mrgPc = "append"
  /\ appended = Len(pdf_files)
  /\ collection_docs' =
       [d \in {<<collection_folder_path[1], "input_folder.pdf">>} |->
          merged_pdf]
  /\ printed' = Append(printed, "All PDFs have been merged and saved")
  /\ mrgPc' = "done"
  /\ UNCHANGED <<input_exists, input_files, collection_dirs,
                 collection_folder_path, pdf_files, merged_pdf, appended,
                 collection_dirs0, OtherThanMrg>>

append_pdfs_to_manga_collection ==
  \/ MissingInput \/ FindCollection \/ CreateCollection
  \/ NoPdfFiles \/ StartMerge \/ AppendNext \/ OpenRaises \/ SaveMerged

NextMrg == append_pdfs_to_manga_collection

SpecMrg == InitMrg /\ [][NextMrg]_vars

\* ------------------------------ append_pdfs_to_manga_collection: claims
\* The input folder is missing or holds no document.
NoDocuments == ~input_exists \/ DOMAIN input_files \cap PdfNames = {}

\* C19: when the input folder is missing or holds no document, the function
\* returns having printed the condition, written no document and created or
\* changed nothing: the folders named collection_folder_name are the ones
\* that were there when it was called.
C19_NoOpWithoutDocuments ==
  (mrgPc = "done" /\ NoDocuments) =>
    /\ printed # <<>>
    /\ collection_docs = <<>>
    /\ collection_dirs = collection_dirs0

\* ------------------------------------------------- download_manga_images
\* The keys of image_data, at most.
MaxChapters == 2

\* f"{index:03d}.jpg"
IndexWidth == 3

Id_index == <<"i","n","d","e","x">>
Id_vol1ch1 == <<"v","o","l","-","1","-","c","h","-","1">>
Id_ch5 == <<"c","h","-","5">>

\* The keys image_data may have.
ChapterUrls ==
  {Id_about, Id_index, Id_Vol1Ch1, Id_vol1ch1, Id_volume2prologue1,
   Id_volume1ch5, Id_ch5}

\* How many image urls the list of a key may hold.
ListLengths == {1, 2}

\* re.search(lit, s), lit a literal.
HasLit(s, lit) == \E i \in 1..Len(s) : LitAt(s, i, lit)

\* int(re.search(r'(episode|prologue|ch)-(\d+)', l).group(2)) if the pattern
\* is found, else float('inf'): the leftmost position where one of the three
\* alternatives matches (their first letters differ, so only one can).
UnitNumber(l) ==
  LET pats == {PatEpisodeNum, PatPrologueNum, PatStandaloneCh}
      at == {i \in 1..Len(l) : \E pat \in pats : MatchAt(l, i, pat).ok}
  IN  IF at = {} THEN INF
      ELSE LET i == CHOOSE i \in at : \A k \in at : i <= k
               pat == CHOOSE pat \in pats : MatchAt(l, i, pat).ok
           IN  Fin(IntOf(MatchAt(l, i, pat).groups[1]))

\* The key of the sorted of lines 274-278.
download_sort_key(link) ==
  LET l  == Lower(link)
      mv == Search(l, PatVolume)
  IN  << IF mv.ok THEN Fin(IntOf(mv.groups[1])) ELSE INF,
         IF HasLit(l, <<"p","r","o","l","o","g","u","e">>) THEN Fin(0)
         ELSE Fin(1),
         UnitNumber(l) >>

\* subfolder_name of lines 283-304: the groups are put back as the strings
\* that were matched in url.lower().
subfolder_name(link) ==
  LET l  == Lower(link)
      mp == Search(l, PatPrologue)
      me == Search(l, PatEpisode)
      mc == Search(l, PatChapter)
      ms == Search(l, PatStandaloneCh)
  IN  IF mp.ok
        THEN <<"v","o","l","u","m","e","-">> \o mp.groups[1]
               \o <<"-","p","r","o","l","o","g","u","e","-">> \o mp.groups[2]
      ELSE IF me.ok
        THEN <<"v","o","l","u","m","e","-">> \o me.groups[1]
               \o <<"-","e","p","i","s","o","d","e","-">> \o me.groups[2]
      ELSE IF mc.ok
        THEN <<"v","o","l","-">> \o mc.groups[1]
               \o <<"-","c","h","-">> \o mc.groups[2]
      ELSE IF ms.ok
        THEN <<"c","h","-">> \o ms.groups[1]
      ELSE <<"u","n","k","n","o","w","n">>

\* The key and the subfolder name of every url, computed once.
DownloadKeyOf == [n \in ChapterUrls |-> download_sort_key(n)]
SubfolderNameOf == [n \in ChapterUrls |-> subfolder_name(n)]

\* f"{index:03d}.jpg"
ImageFilename(index) ==
  ZeroPadded(index, IndexWidth) \o <<".","j","p","g">>

\* The dicts the function may be given: their keys differ.
ImageDataInputs ==
  {d \in SeqsUpTo(ChapterUrls \X ListLengths, MaxChapters) :
     \A i, j \in 1..Len(d) : d[i][1] = d[j][1] => i = j}

\* len(image_data[link])
ImageCountOf(link) ==
  image_data[CHOOSE i \in 1..Len(image_data) : image_data[i][1] = link][2]

\* The folder dir holding the file what under the name filename.
WithFile(dir, filename, what) ==
  [f \in DOMAIN dir \cup {filename} |-> IF f = filename THEN what ELSE dir[f]]

InitDl ==
  /\ IdleSeq
  /\ IdleNorm
  /\ IdleLoc
  /\ IdleAsm
  /\ IdleMrg
  /\ dlPc = "start"
  /\ image_data \in ImageDataInputs
  /\ main_folder = <<>>
  /\ sorted_urls = <<>>
  /\ urlPos = 1
  /\ subfolder = <<>>
  /\ imgIndex = 0

\* lines 270-278: the main folder, then the keys sorted
SortUrls ==
  /\ dlPc = "start"
  /\ LET keys == [i \in 1..Len(image_data) |-> image_data[i][1]]
     IN  sorted_urls' =
           Sorted(keys, [i \in 1..Len(keys) |-> DownloadKeyOf[keys[i]]])
  /\ urlPos' = 1
  /\ dlPc' = "url"
  /\ UNCHANGED <<image_data, main_folder, subfolder, imgIndex, OtherThanDl>>

\* lines 280-308: the next url, its subfolder name, and
\* os.makedirs(subfolder, exist_ok=True)
MakeSubfolder ==
  /\ dlPc = "url"
  /\ urlPos <= Len(sorted_urls)
  /\ subfolder' = SubfolderNameOf[sorted_urls[urlPos]]
  /\ main_folder' =
       IF subfolder' \in DOMAIN main_folder THEN main_folder
       ELSE [d \in DOMAIN main_folder \cup {subfolder'} |->
               IF d = subfolder' THEN <<>> ELSE main_folder[d]]
  /\ imgIndex' = 0
  /\ dlPc' = "image"
  /\ UNCHANGED <<image_data, sorted_urls, urlPos, OtherThanDl>>

\* lines 311-322: the image is fetched and written to the file whole, or
\* iter_content raises after open(filename, "wb") has emptied the file and
\* a part is written
WriteImage ==
  /\ dlPc = "image"
  /\ imgIndex < ImageCountOf(sorted_urls[urlPos])
  /\ \E whole \in BOOLEAN :
       main_folder' =
         [main_folder EXCEPT ![subfolder] =
            WithFile(@, ImageFilename(imgIndex),
                     [url |-> sorted_urls[urlPos], index |-> imgIndex,
                      whole |-> whole])]
  /\ imgIndex' = imgIndex + 1
  /\ UNCHANGED <<dlPc, image_data, sorted_urls, urlPos, subfolder,
                 OtherThanDl>>

\* lines 311-315, 323-324: requests.get or raise_for_status raises: nothing
\* is written for this image
FetchFails ==
  /\ dlPc = "image"
  /\ imgIndex < ImageCountOf(sorted_urls[urlPos])
  /\ imgIndex' = imgIndex + 1
  /\ UNCHANGED <<dlPc, image_data, main_folder, sorted_urls, urlPos,
                 subfolder, OtherThanDl>>

\* line 311: the list of the url is exhausted, on to the next url
ImagesDone ==
  /\ dlPc = "image"
  /\ imgIndex = ImageCountOf(sorted_urls[urlPos])
  /\ urlPos' = urlPos + 1
  /\ dlPc' = "url"
  /\ UNCHANGED <<image_data, main_folder, sorted_urls, subfolder, imgIndex,
                 OtherThanDl>>

\* line 280: the keys are exhausted, the function returns
UrlsDone ==
  /\ dlPc = "url"
  /\ urlPos > Len(sorted_urls)
  /\ dlPc' = "done"
  /\ UNCHANGED <<image_data, main_folder, sorted_urls, urlPos, subfolder,
                 imgIndex, OtherThanDl>>

download_manga_images ==
  \/ SortUrls \/ MakeSubfolder \/ WriteImage \/ FetchFails
  \/ ImagesDone \/ UrlsDone

NextDl == download_manga_images

SpecDl == InitDl /\ [][NextDl]_vars

\* --------------------------------------- download_manga_images: claims
\* C23: download_manga_images gives every key of image_data a subfolder of
\* its own (the subfolder the function makes for a url is not one it has made
\* for another url), and no step writes the image of a url over a file that
\* holds the image of another url.
C23_OwnSubfolderNoOverwrite ==
  [][ /\ (dlPc = "url" /\ dlPc' = "image") =>
           subfolder' \notin DOMAIN main_folder
      /\ \A d \in DOMAIN main_folder : \A f \in DOMAIN main_folder[d] :
           main_folder'[d][f].url = main_folder[d][f].url ]_vars

=============================================================================
